---- MODULE Spec2Model ----
(***************************************************************************)
(* Model of the MFA DynamoDB backup / disaster-recovery lambdas.           *)
(*                                                                         *)
(*   SpecExport  - the daily backup run (lambda/daily_backup):             *)
(*                 start exports, monitor to the deadline, manifest,       *)
(*                 summary, offsite copy, status code.                     *)
(*   SpecRestoreTable - restore_table_from_s3_export for one table, with   *)
(*                 the worker pool of batch_write_items_to_table.          *)
(*   SpecDR      - the restore run (lambda/disaster_recovery): resolve     *)
(*                 tables and exports, dry run or per-table restore,       *)
(*                 summary and status code.                                *)
(*                                                                         *)
(* Python dicts are modelled as functions from the keys that are present   *)
(* to their values; dict.get(k, d) is Get(d, k, default) and dict.update   *)
(* is Update.  Remote services are the environment: every response is a    *)
(* nondeterministic choice from a small set.  The clock (time.time) is     *)
(* advanced only by time.sleep; a remote call takes no time units.         *)
(***************************************************************************)
EXTENDS Integers, Sequences, FiniteSets, TLC

VARIABLES
    \* ---- daily_backup lambda_handler ----
    pc,                 \* position of the export run's control task
    tables_to_backup,   \* configured table list (get_tables_to_backup)
    export_results,     \* list of result dicts, one per started/failed table
    export_arns,        \* job handles still being monitored
    remaining_exports,  \* wait_for_exports_completion: the round's survivors
    completed_exports,  \* wait_for_exports_completion: returned status dicts
    timed_out_exports,  \* _handle_timed_out_exports: its local list
    idx,                \* index of the for-loop the control task is in
    elapsed,            \* wait_for_exports_completion: time.time() - start_time
    manifest,           \* the manifest dict built by create_export_manifest
    manifest_key,       \* its return value (NoKey when the write failed)
    summary,            \* _calculate_export_summary's tuple
    s3_objects,         \* copy_to_backblaze: number of objects listed
    copy_results,       \* copy_to_backblaze / _handle_backblaze_copy result
    offsite_puts,       \* number of objects stored in the offsite bucket
    statusCode,         \* the handler's statusCode (0 while running)
    \* ---- history (environment log) ----
    start_outcome,      \* per attempted table, what the remote start did
    final_poll_log,     \* (arn, status) of every poll made after the deadline
    \* ---- disaster_recovery restore_table_from_s3_export ----
    rpc,                \* position of the table restore's control task
    clear_existing,     \* the clear_existing argument
    max_workers,        \* the max_workers argument
    data_files,         \* per data file, the number of items parsed from it
    file_i,             \* index of the data file being processed
    written_failed,     \* (written, failed) returned by the last batch write
    total_items_processed,
    total_items_written,
    total_items_failed,
    restore_result,     \* the dict restore_table_from_s3_export returns
    \* ---- disaster_recovery batch_write_items_to_table ----
    total_items,        \* len(items)
    chunks,             \* one record per submitted batch (future)
    items_written,      \* coordinator's counter
    failed_items,       \* coordinator's counter
    batch_count,        \* coordinator's counter
    \* ---- disaster_recovery lambda_handler ----
    dpc,                \* position of the restore run's control task
    event,              \* the invocation input
    table_items,        \* per table of the key-value store, its item keys
    table_items0,       \* table_items when the run started
    remote_calls,       \* the remote operations the run has issued so far
    tables_to_restore,
    available_exports,  \* table name -> its valid export entry
    validation_results, \* dry run: one dict per table
    restore_results,    \* restore: one dict per table
    table_i,            \* index of the per-table loop
    dr_status,          \* the handler's statusCode (0 while running)
    dr_error,           \* the 'error' of the 500 body ("" when there is none)
    \* ---- disaster_recovery get_export_data_files ----
    loc_pc,             \* position inside get_export_data_files
    loc_store,          \* the objects under the export's s3_prefix
    loc_errors,         \* the strategies whose list calls raise
    loc_valid,          \* whether export_info passes validate_export_info
    loc_result,         \* what the call returned or raised
    \* ---- the same export restored twice into one table ----
    tw_pc,              \* position inside restore_table_from_s3_export
    tw_run,             \* which of the two restores is running
    tw_items,           \* the item keys the target table holds
    tw_export,          \* the item keys in the export's data file
    tw_pending,         \* items of the file not yet submitted
    tw_counts,          \* the table's item count at the end of each restore
    \* ---- the environment of the export run ----
    missing_setting,    \* the required setting that is not set ("" for none)
    \* ---- export runs and a restore run on one bucket ----
    rt_pc,              \* "export" while export runs go on, then "done"
    rt_today,           \* the date of the latest export run
    rt_run,             \* the number of export runs so far
    rt_bucket,          \* the keys of the objects in the backup bucket
    rt_content,         \* per key of the bucket, the run that wrote the object
    rt_written,         \* the manifest keys the export runs have stored
    rt_request,         \* the restore's backup_date
    rt_result,          \* what the restore's manifest lookup came to
    \* ---- disaster_recovery write_batch, the batches of one item list ----
    wb_total_items,     \* len(items)
    wb_chunks,          \* per batch, the state of its write_batch call
    wb_log,             \* per batch, the answers its calls got so far
    \* ---- disaster_recovery clear_existing_table_data ----
    cl_pc,              \* position of the clear's control task
    cl_table,           \* the item keys the table holds
    cl_table0,          \* cl_table when the clear started
    cl_items,           \* response['Items'] of the current scan page
    cl_last_key,        \* response's LastEvaluatedKey (0 when absent)
    cl_futures,         \* delete_futures of the current page
    cl_items_deleted,   \* items_deleted
    cl_batch_count,     \* batch_count
    cl_accept_at,       \* per delete batch so far, the submission the store
                        \* would have accepted all its requests at
    cl_result,          \* the (success, items_deleted) returned
    \* ---- daily_backup copy_to_backblaze ----
    oc_pc,              \* position of the copy's control task
    oc_stored,          \* the keys stored under the backup date's prefix
    oc_objects,         \* objects / s3_objects: the keys listed
    oc_i,               \* index of the object the copy loop is at
    oc_results,         \* copy_results
    oc_offsite          \* the keys uploaded to the offsite store

exportVars == <<pc, tables_to_backup, export_results, export_arns,
                remaining_exports, completed_exports, timed_out_exports, idx,
                elapsed, manifest, manifest_key, summary, s3_objects,
                copy_results, offsite_puts, statusCode, start_outcome,
                final_poll_log>>

tableRestoreVars == <<rpc, clear_existing, max_workers, data_files, file_i,
                      written_failed, total_items_processed,
                      total_items_written, total_items_failed, restore_result>>

batchWriteVars == <<total_items, chunks, items_written, failed_items,
                    batch_count>>

handlerVars == <<dpc, event, table_items, table_items0, remote_calls,
                 tables_to_restore, available_exports, validation_results,
                 restore_results, table_i, dr_status, dr_error>>

restoreVars == <<tableRestoreVars, batchWriteVars, handlerVars>>

locateVars == <<loc_pc, loc_store, loc_errors, loc_valid, loc_result>>

\* The state of the functions that are also run on their own
twiceVars == <<tw_pc, tw_run, tw_items, tw_export, tw_pending, tw_counts>>

configVars == <<missing_setting>>

roundTripVars == <<rt_pc, rt_today, rt_run, rt_bucket, rt_content,
                   rt_written, rt_request, rt_result>>

writeBatchVars == <<wb_total_items, wb_chunks, wb_log>>

clearVars == <<cl_pc, cl_table, cl_table0, cl_items, cl_last_key, cl_futures,
               cl_items_deleted, cl_batch_count, cl_accept_at, cl_result>>

offsiteCopyVars == <<oc_pc, oc_stored, oc_objects, oc_i, oc_results,
                     oc_offsite>>

auxVars == <<locateVars, twiceVars, configVars, roundTripVars, writeBatchVars,
             clearVars, offsiteCopyVars>>

vars == <<exportVars, restoreVars, auxVars>>

----------------------------------------------------------------------------
\* Bounds of the model
MaxTables == 2
MaxObjects == 2

MaxFiles == 2
MaxKeys == 2
MaxDates == 3
MaxRuns == 4
MaxPage == 30

\* Program constants
MaxWaitTime == 840
PollInterval == 30
BatchLimit == 25
MaxRetries == 3

NoKey == "None"

----------------------------------------------------------------------------
\* Python helpers

\* dict.get(k, default)
Get(d, k, default) == IF k \in DOMAIN d THEN d[k] ELSE default

\* dict.update(e)
Update(d, e) ==
    [k \in (DOMAIN d) \cup (DOMAIN e) |-> IF k \in DOMAIN e THEN e[k] ELSE d[k]]

\* one more key in a dict
With(d, k, v) == Update(d, [x \in {k} |-> v])

RECURSIVE SumSeq(_)
SumSeq(s) == IF s = <<>> THEN 0 ELSE Head(s) + SumSeq(Tail(s))

\* len([e for e in s if e.get('status') in statuses])
CountStatus(s, statuses) ==
    Cardinality({i \in 1..Len(s) : Get(s[i], "status", "") \in statuses})

----------------------------------------------------------------------------
\* The remote services, as the code sees them

\* What _start_table_exports / start_table_export can meet for one table.
StartOutcomes ==
    {"ok", "table_not_found", "describe_table_error", "identity_error",
     "start_error"}

\* describe_export answers: an ExportDescription, or an error.
ExportDescriptions ==
    { [ExportStatus |-> "IN_PROGRESS", ItemCount |-> 0,    BillingSizeBytes |-> 0],
      [ExportStatus |-> "IN_PROGRESS", ItemCount |-> 500,  BillingSizeBytes |-> 2048],
      [ExportStatus |-> "COMPLETED",   ItemCount |-> 500,  BillingSizeBytes |-> 2048],
      [ExportStatus |-> "COMPLETED",   ItemCount |-> 1200, BillingSizeBytes |-> 4096],
      [ExportStatus |-> "FAILED",      ItemCount |-> 0,    BillingSizeBytes |-> 0],
      [ExportStatus |-> "FAILED",      ItemCount |-> 500,  BillingSizeBytes |-> 2048] }

DescribeError == [Error |-> "describe_export failed"]

DescribeAnswers == ExportDescriptions \cup {DescribeError}

----------------------------------------------------------------------------
\* daily_backup: pure functions

\* check_export_status: the status dict built from describe_export's answer;
\* any error gives status UNKNOWN with none of the count fields.
check_export_status(export_arn, answer) ==
    IF "Error" \in DOMAIN answer
    THEN [export_arn |-> export_arn, status |-> "UNKNOWN",
          error |-> answer.Error]
    ELSE [export_arn |-> export_arn, status |-> answer.ExportStatus,
          item_count |-> answer.ItemCount,
          billing_size_bytes |-> answer.BillingSizeBytes]

\* _process_export_arn's completion flag
is_completed(status_info) == status_info.status \in {"COMPLETED", "FAILED"}

\* sum(e.get(k, 0) for e in results if e.get(k))
SumField(results, k) ==
    SumSeq([i \in 1..Len(results) |-> Get(results[i], k, 0)])

SuccessfulStatuses == {"COMPLETED"}
FailedStatuses == {"FAILED", "UNKNOWN"}

\* create_export_manifest: the manifest dict (the aggregate fields and the list)
build_manifest(results) ==
    [total_exports        |-> Len(results),
     successful_exports   |-> CountStatus(results, SuccessfulStatuses),
     failed_exports       |-> CountStatus(results, FailedStatuses),
     total_items_exported |-> SumField(results, "item_count"),
     total_size_bytes     |-> SumField(results, "billing_size_bytes"),
     exports              |-> results]

\* _calculate_export_summary (the size is kept in bytes: the code divides the
\* same sum by 1024 * 1024)
calculate_export_summary(results) ==
    [successful_exports |-> CountStatus(results, SuccessfulStatuses),
     failed_exports     |-> CountStatus(results, FailedStatuses),
     total_items        |-> SumField(results, "item_count"),
     total_size_bytes   |-> SumField(results, "billing_size_bytes")]

\* _determine_status_code
determine_status_code(failed_exports, successful_exports, backblaze_copy_results) ==
    IF failed_exports > 0 /\ successful_exports = 0 THEN 500
    ELSE IF failed_exports > 0 \/ backblaze_copy_results.status = "FAILED" THEN 207
    ELSE 200

\* (a variant that gives every started job's result the first completion
\* record, whatever handle the record carries)
update_export_results_with_first(results, completed) ==
    [i \in 1..Len(results) |->
        IF Get(results[i], "export_arn", 0) # 0 /\ completed # <<>>
        THEN Update(results[i], completed[1])
        ELSE results[i]]

\* _update_export_results_with_completion: every result that has a handle is
\* updated with the first completion record carrying the same handle.
update_export_results(results, completed) ==
    [i \in 1..Len(results) |->
        IF Get(results[i], "export_arn", 0) # 0
           /\ \E j \in 1..Len(completed) :
                  completed[j].export_arn = results[i].export_arn
        THEN LET j == CHOOSE j \in 1..Len(completed) :
                         /\ completed[j].export_arn = results[i].export_arn
                         /\ \A h \in 1..(j - 1) :
                                completed[h].export_arn # results[i].export_arn
             IN  Update(results[i], completed[j])
        ELSE results[i]]

NoManifest == [total_exports |-> -1]
NoSummary == [successful_exports |-> -1]
NoCopy == [status |-> "NONE"]

----------------------------------------------------------------------------
\* daily_backup: the run

\* No result dict yet
NoResult == [status |-> "NONE"]

\* The restore handler when no restore run is going on.
HandlerIdle ==
    /\ dpc = "idle"
    /\ event = [dry_run |-> FALSE]
    /\ table_items = <<>>
    /\ table_items0 = <<>>
    /\ remote_calls = {}
    /\ tables_to_restore = <<>>
    /\ available_exports = <<>>
    /\ validation_results = <<>>
    /\ restore_results = <<>>
    /\ table_i = 0
    /\ dr_status = 0
    /\ dr_error = ""

\* get_export_data_files when it is not run on its own.
NoLocateResult == [status |-> "none"]

LocateIdle ==
    /\ loc_pc = "idle"
    /\ loc_store = {}
    /\ loc_errors = {}
    /\ loc_valid = TRUE
    /\ loc_result = NoLocateResult

\* No pair of restores is running.
TwiceIdle ==
    /\ tw_pc = "idle"
    /\ tw_run = 0
    /\ tw_items = {}
    /\ tw_export = {}
    /\ tw_pending = {}
    /\ tw_counts = <<>>

\* Every required setting of the export run is set.
ConfigIdle == missing_setting = ""

\* No export-then-restore sequence is being followed.
NoRequest == [latest |-> FALSE, date |-> 0]

RoundTripIdle ==
    /\ rt_pc = "idle"
    /\ rt_today = 0
    /\ rt_run = 0
    /\ rt_bucket = {}
    /\ rt_content = <<>>
    /\ rt_written = {}
    /\ rt_request = NoRequest
    /\ rt_result = [status |-> "none"]

\* No write_batch call is followed on its own.
WriteBatchIdle ==
    /\ wb_total_items = 0
    /\ wb_chunks = <<>>
    /\ wb_log = <<>>

\* clear_existing_table_data when it is not run on its own.
NoClearResult == [success |-> FALSE, items_deleted |-> -1]

ClearIdle ==
    /\ cl_pc = "idle"
    /\ cl_table = {}
    /\ cl_table0 = {}
    /\ cl_items = {}
    /\ cl_last_key = 0
    /\ cl_futures = <<>>
    /\ cl_items_deleted = 0
    /\ cl_batch_count = 0
    /\ cl_accept_at = {}
    /\ cl_result = NoClearResult

\* copy_to_backblaze when it is not run on its own.
OffsiteCopyIdle ==
    /\ oc_pc = "idle"
    /\ oc_stored = {}
    /\ oc_objects = <<>>
    /\ oc_i = 0
    /\ oc_results = NoCopy
    /\ oc_offsite = {}

AuxIdle ==
    /\ LocateIdle /\ TwiceIdle /\ ConfigIdle /\ RoundTripIdle
    /\ WriteBatchIdle /\ ClearIdle /\ OffsiteCopyIdle

\* restore_table_from_s3_export when it is not running.
TableRestoreIdle ==
    /\ rpc = "idle"
    /\ clear_existing = FALSE
    /\ max_workers = 0
    /\ data_files = <<>>
    /\ file_i = 0
    /\ written_failed = <<0, 0>>
    /\ total_items_processed = 0
    /\ total_items_written = 0
    /\ total_items_failed = 0
    /\ restore_result = NoResult
    /\ total_items = 0
    /\ chunks = <<>>
    /\ items_written = 0
    /\ failed_items = 0
    /\ batch_count = 0

\* The settings the export run requires: the first three are read at the
\* head of lambda_handler, the offsite ones by get_backblaze_config.
HandlerSettings == {"BACKUP_BUCKET", "ENVIRONMENT", "DYNAMODB_TABLES"}
OffsiteSettings == {"B2_APPLICATION_KEY_ID", "B2_ENDPOINT"}
MissingSettings == {""} \cup HandlerSettings \cup OffsiteSettings

ExportStart ==
    /\ pc = "config"
    /\ missing_setting \in MissingSettings
    /\ tables_to_backup \in {[i \in 1..n |-> i] : n \in 0..MaxTables}
    /\ export_results = <<>>
    /\ export_arns = <<>>
    /\ remaining_exports = <<>>
    /\ completed_exports = <<>>
    /\ timed_out_exports = <<>>
    /\ idx = 1
    /\ elapsed = 0
    /\ manifest = NoManifest
    /\ manifest_key = NoKey
    /\ summary = NoSummary
    /\ s3_objects = 0
    /\ copy_results = NoCopy
    /\ offsite_puts = 0
    /\ statusCode = 0
    /\ start_outcome = <<>>
    /\ final_poll_log = <<>>

\* (a variant in which the configuration error leaves the handler)
GetConfigurationRaising ==
    /\ pc = "config"
    /\ pc' = IF missing_setting \in HandlerSettings THEN "raised" ELSE "start"
    /\ UNCHANGED <<tables_to_backup, export_results, export_arns,
                   remaining_exports, completed_exports, timed_out_exports,
                   idx, elapsed, manifest, manifest_key, summary, s3_objects,
                   copy_results, offsite_puts, statusCode, start_outcome,
                   final_poll_log, restoreVars, auxVars>>

\* _get_backup_configuration and get_tables_to_backup: a missing setting
\* raises into the handler's except clause, which returns 500.
GetConfiguration ==
    /\ pc = "config"
    /\ IF missing_setting \in HandlerSettings
       THEN pc' = "done" /\ statusCode' = 500
       ELSE pc' = "start" /\ statusCode' = statusCode
    /\ UNCHANGED <<tables_to_backup, export_results, export_arns,
                   remaining_exports, completed_exports, timed_out_exports,
                   idx, elapsed, manifest, manifest_key, summary, s3_objects,
                   copy_results, offsite_puts, start_outcome,
                   final_poll_log, restoreVars, auxVars>>

\* The dict one iteration of _start_table_exports appends for a table, given
\* what the remote calls did.  The handle of the i-th table's job is i.
start_result(i, table_name, outcome) ==
    IF outcome = "ok"
    THEN [table_name |-> table_name, export_arn |-> i, status |-> "IN_PROGRESS"]
    ELSE [table_name |-> table_name, error |-> outcome, status |-> "FAILED"]

\* One iteration of the loop of _start_table_exports: describe_table, then
\* start_table_export; a failure of either is caught and recorded.
StartTableAborting ==
    /\ pc = "start"
    /\ UNCHANGED <<restoreVars, auxVars>>
    /\ idx <= Len(tables_to_backup)
    /\ \E outcome \in StartOutcomes :
          /\ start_outcome' = Append(start_outcome, outcome)
          /\ IF outcome = "ok"
             THEN /\ export_results' =
                         Append(export_results,
                                start_result(idx, tables_to_backup[idx], outcome))
                  /\ export_arns' = Append(export_arns, idx)
                  /\ idx' = idx + 1
                  /\ UNCHANGED <<pc, statusCode>>
             ELSE \* the error leaves the loop and reaches the handler's except
                  /\ pc' = "done"
                  /\ statusCode' = 500
                  /\ UNCHANGED <<export_results, export_arns, idx>>
    /\ UNCHANGED <<tables_to_backup, remaining_exports, completed_exports,
                   timed_out_exports, elapsed, manifest, manifest_key,
                   summary, s3_objects, copy_results, offsite_puts,
                   final_poll_log>>

StartTable ==
    /\ pc = "start"
    /\ UNCHANGED <<restoreVars, auxVars>>
    /\ idx <= Len(tables_to_backup)
    /\ \E outcome \in StartOutcomes :
          LET result == start_result(idx, tables_to_backup[idx], outcome) IN
          /\ start_outcome' = Append(start_outcome, outcome)
          /\ export_results' = Append(export_results, result)
          /\ export_arns' = IF Get(result, "export_arn", 0) # 0
                            THEN Append(export_arns, result.export_arn)
                            ELSE export_arns
    /\ idx' = idx + 1
    /\ UNCHANGED <<pc, tables_to_backup, remaining_exports, completed_exports,
                   timed_out_exports, elapsed, manifest, manifest_key,
                   summary, s3_objects, copy_results, offsite_puts, statusCode,
                   final_poll_log>>

\* lambda_handler, phase 2: "if export_arns:" enters wait_for_exports_completion
\* (start_time = time.time(), completed_exports = []).
EnterMonitor ==
    /\ pc = "start"
    /\ UNCHANGED <<restoreVars, auxVars>>
    /\ idx > Len(tables_to_backup)
    /\ IF export_arns # <<>>
       THEN /\ pc' = "while"
            /\ elapsed' = 0
            /\ completed_exports' = <<>>
       ELSE /\ pc' = "manifest"
            /\ UNCHANGED <<elapsed, completed_exports>>
    /\ UNCHANGED <<tables_to_backup, export_results, export_arns,
                   remaining_exports, timed_out_exports, idx, elapsed, manifest,
                   manifest_key, summary, s3_objects, copy_results,
                   offsite_puts, statusCode, start_outcome, final_poll_log>>

\* while export_arns and (time.time() - start_time) < max_wait_time
WhileCheckNoDeadline ==
    /\ pc = "while"
    /\ UNCHANGED <<restoreVars, auxVars>>
    /\ IF export_arns # <<>> /\ elapsed < MaxWaitTime + 2 * PollInterval
       THEN pc' = "poll" /\ remaining_exports' = <<>>
       ELSE /\ pc' = IF export_arns # <<>> THEN "timeout" ELSE "return"
            /\ UNCHANGED remaining_exports
    /\ idx' = 1
    /\ UNCHANGED <<tables_to_backup, export_results, export_arns,
                   completed_exports, timed_out_exports, elapsed,
                   manifest, manifest_key, summary, s3_objects, copy_results,
                   offsite_puts, statusCode, start_outcome, final_poll_log>>

WhileCheck ==
    /\ pc = "while"
    /\ UNCHANGED <<restoreVars, auxVars>>
    /\ IF export_arns # <<>> /\ elapsed < MaxWaitTime
       THEN pc' = "poll" /\ remaining_exports' = <<>>
       ELSE /\ pc' = IF export_arns # <<>> THEN "timeout" ELSE "return"
            /\ UNCHANGED remaining_exports
    /\ idx' = 1
    /\ UNCHANGED <<tables_to_backup, export_results, export_arns,
                   completed_exports, timed_out_exports, elapsed,
                   manifest, manifest_key, summary, s3_objects, copy_results,
                   offsite_puts, statusCode, start_outcome, final_poll_log>>

\* (a variant that goes on monitoring a job it has seen COMPLETED or FAILED)
PollExportKeepsMonitoring ==
    /\ pc = "poll"
    /\ UNCHANGED <<restoreVars, auxVars>>
    /\ idx <= Len(export_arns)
    /\ \E answer \in DescribeAnswers :
          LET status_info == check_export_status(export_arns[idx], answer) IN
          /\ remaining_exports' = Append(remaining_exports, export_arns[idx])
          /\ IF is_completed(status_info)
             THEN completed_exports' = Append(completed_exports, status_info)
             ELSE UNCHANGED completed_exports
    /\ idx' = idx + 1
    /\ UNCHANGED <<pc, tables_to_backup, export_results, export_arns,
                   timed_out_exports, elapsed, manifest, manifest_key,
                   summary, s3_objects, copy_results, offsite_puts, statusCode,
                   start_outcome, final_poll_log>>

\* One iteration of the for-loop of a poll round: _process_export_arn.
PollExport ==
    /\ pc = "poll"
    /\ UNCHANGED <<restoreVars, auxVars>>
    /\ idx <= Len(export_arns)
    /\ \E answer \in DescribeAnswers :
          LET status_info == check_export_status(export_arns[idx], answer) IN
          IF is_completed(status_info)
          THEN /\ completed_exports' = Append(completed_exports, status_info)
               /\ UNCHANGED remaining_exports
          ELSE /\ remaining_exports' = Append(remaining_exports, export_arns[idx])
               /\ UNCHANGED completed_exports
    /\ idx' = idx + 1
    /\ UNCHANGED <<pc, tables_to_backup, export_results, export_arns,
                   timed_out_exports, elapsed, manifest, manifest_key,
                   summary, s3_objects, copy_results, offsite_puts, statusCode,
                   start_outcome, final_poll_log>>

\* (a variant that polls again at once, without sleeping)
EndRoundNoSleep ==
    /\ pc = "poll"
    /\ UNCHANGED <<restoreVars, auxVars>>
    /\ idx > Len(export_arns)
    /\ export_arns' = remaining_exports
    /\ pc' = "while"
    /\ UNCHANGED <<tables_to_backup, export_results, remaining_exports,
                   completed_exports, timed_out_exports, idx, elapsed,
                   manifest, manifest_key, summary, s3_objects, copy_results,
                   offsite_puts, statusCode, start_outcome, final_poll_log>>

\* export_arns = remaining_exports; if export_arns: time.sleep(30)
EndRound ==
    /\ pc = "poll"
    /\ UNCHANGED <<restoreVars, auxVars>>
    /\ idx > Len(export_arns)
    /\ export_arns' = remaining_exports
    /\ elapsed' = IF remaining_exports # <<>> THEN elapsed + PollInterval ELSE elapsed
    /\ pc' = "while"
    /\ UNCHANGED <<tables_to_backup, export_results, remaining_exports,
                   completed_exports, timed_out_exports, idx,
                   manifest, manifest_key, summary, s3_objects, copy_results,
                   offsite_puts, statusCode, start_outcome, final_poll_log>>

\* (a variant that reports the job FAILED instead of its observed status)
timed_out_status_as_failed(export_arn, answer) ==
    With(With(check_export_status(export_arn, answer), "status", "FAILED"),
         "timeout", TRUE)

\* One iteration of the loop of _handle_timed_out_exports: poll once more and
\* mark the status dict timed out, whatever status it carries.
timed_out_status(export_arn, answer) ==
    With(check_export_status(export_arn, answer), "timeout", TRUE)

HandleTimedOut ==
    /\ pc = "timeout"
    /\ UNCHANGED <<restoreVars, auxVars>>
    /\ idx <= Len(export_arns)
    /\ \E answer \in DescribeAnswers :
          /\ timed_out_exports' =
                 Append(timed_out_exports,
                        timed_out_status(export_arns[idx], answer))
          /\ final_poll_log' =
                 Append(final_poll_log,
                        [export_arn |-> export_arns[idx],
                         status |-> check_export_status(export_arns[idx],
                                                        answer).status])
    /\ idx' = idx + 1
    /\ UNCHANGED <<pc, tables_to_backup, export_results, export_arns,
                   remaining_exports, completed_exports, elapsed,
                   manifest, manifest_key, summary, s3_objects, copy_results,
                   offsite_puts, statusCode, start_outcome>>

\* (a variant that returns the timed-out jobs' records in place of the
\* records collected while polling)
ExtendTimedOutReplacing ==
    /\ pc = "timeout"
    /\ UNCHANGED <<restoreVars, auxVars>>
    /\ idx > Len(export_arns)
    /\ completed_exports' = timed_out_exports
    /\ pc' = "return"
    /\ UNCHANGED <<tables_to_backup, export_results, export_arns,
                   remaining_exports, timed_out_exports, idx, elapsed,
                   manifest, manifest_key, summary, s3_objects, copy_results,
                   offsite_puts, statusCode, start_outcome, final_poll_log>>

\* completed_exports.extend(timed_out_exports); return completed_exports
ExtendTimedOut ==
    /\ pc = "timeout"
    /\ UNCHANGED <<restoreVars, auxVars>>
    /\ idx > Len(export_arns)
    /\ completed_exports' = completed_exports \o timed_out_exports
    /\ pc' = "return"
    /\ UNCHANGED <<tables_to_backup, export_results, export_arns,
                   remaining_exports, timed_out_exports, idx, elapsed,
                   manifest, manifest_key, summary, s3_objects, copy_results,
                   offsite_puts, statusCode, start_outcome, final_poll_log>>

\* wait_for_exports_completion has returned; lambda_handler calls
\* _update_export_results_with_completion.  The monitor's locals go out of
\* scope here, and completed_exports is not read again after this call: they
\* are cleared.
UpdateResults ==
    /\ pc = "return"
    /\ UNCHANGED <<restoreVars, auxVars>>
    /\ export_results' = update_export_results(export_results, completed_exports)
    /\ pc' = "manifest"
    /\ remaining_exports' = <<>>
    /\ timed_out_exports' = <<>>
    /\ export_arns' = <<>>
    /\ completed_exports' = <<>>
    /\ elapsed' = 0
    /\ idx' = 1
    /\ UNCHANGED <<tables_to_backup, manifest, manifest_key, summary,
                   s3_objects, copy_results, offsite_puts, statusCode,
                   start_outcome, final_poll_log>>

\* Phase 3: create_export_manifest; the put_object may fail, which is logged
\* and gives a None key.
\* (a variant in which a failed manifest write ends the run with 500)
CreateManifestAborting ==
    /\ pc = "manifest"
    /\ UNCHANGED <<restoreVars, auxVars>>
    /\ manifest' = build_manifest(export_results)
    /\ \E put_ok \in BOOLEAN :
          /\ manifest_key' = IF put_ok THEN "manifest.json" ELSE NoKey
          /\ pc' = IF put_ok THEN "summary" ELSE "done"
          /\ statusCode' = IF put_ok THEN statusCode ELSE 500
    /\ UNCHANGED <<tables_to_backup, export_results, export_arns,
                   remaining_exports, completed_exports, timed_out_exports, idx,
                   elapsed, summary, s3_objects, copy_results,
                   offsite_puts, start_outcome, final_poll_log>>

CreateManifest ==
    /\ pc = "manifest"
    /\ UNCHANGED <<restoreVars, auxVars>>
    /\ manifest' = build_manifest(export_results)
    /\ \E put_ok \in BOOLEAN :
          manifest_key' = IF put_ok THEN "manifest.json" ELSE NoKey
    /\ pc' = "summary"
    /\ UNCHANGED <<tables_to_backup, export_results, export_arns,
                   remaining_exports, completed_exports, timed_out_exports, idx,
                   elapsed, summary, s3_objects, copy_results,
                   offsite_puts, statusCode, start_outcome, final_poll_log>>

\* successful_exports, failed_exports, total_items, total_size_mb =
\*     _calculate_export_summary(export_results)
CalculateSummary ==
    /\ pc = "summary"
    /\ UNCHANGED <<restoreVars, auxVars>>
    /\ summary' = calculate_export_summary(export_results)
    /\ pc' = "copy"
    /\ UNCHANGED <<tables_to_backup, export_results, export_arns,
                   remaining_exports, completed_exports, timed_out_exports, idx,
                   elapsed, manifest, manifest_key, s3_objects,
                   copy_results, offsite_puts, statusCode, start_outcome,
                   final_poll_log>>

\* Phase 4: _handle_backblaze_copy up to the per-object loop of
\* copy_to_backblaze.  With no successful export the copy is skipped; a missing
\* setting or a client error gives FAILED; an empty (or failed) listing gives
\* SUCCESS with no file.
CopyOutcome(status, files_copied, errors) ==
    [status |-> status, files_copied |-> files_copied, errors |-> errors]

\* (a variant that copies whether or not an export completed)
HandleBackblazeCopyAlways ==
    /\ pc = "copy"
    /\ UNCHANGED <<restoreVars, auxVars>>
    /\ \E setup \in IF missing_setting \in OffsiteSettings
                     THEN {"config_missing"}
                     ELSE {"ok", "client_error"} :
          IF setup # "ok"
          THEN /\ copy_results' = CopyOutcome("FAILED", 0, <<setup>>)
               /\ pc' = "status"
               /\ UNCHANGED s3_objects
          ELSE \E n \in 0..MaxObjects :
                  /\ s3_objects' = n
                  /\ copy_results' = CopyOutcome("SUCCESS", 0, <<>>)
                  /\ pc' = IF n = 0 THEN "status" ELSE "copy_file"
    /\ idx' = 1
    /\ UNCHANGED <<tables_to_backup, export_results, export_arns,
                   remaining_exports, completed_exports, timed_out_exports,
                   elapsed, manifest, manifest_key, summary,
                   offsite_puts, statusCode, start_outcome, final_poll_log>>

HandleBackblazeCopy ==
    /\ pc = "copy"
    /\ UNCHANGED <<restoreVars, auxVars>>
    /\ IF summary.successful_exports > 0
       THEN \E setup \in IF missing_setting \in OffsiteSettings
                          THEN {"config_missing"}
                          ELSE {"ok", "client_error"} :
               IF setup # "ok"
               THEN /\ copy_results' = CopyOutcome("FAILED", 0, <<setup>>)
                    /\ pc' = "status"
                    /\ UNCHANGED s3_objects
               ELSE \E n \in 0..MaxObjects :
                       /\ s3_objects' = n
                       /\ copy_results' = CopyOutcome("SUCCESS", 0, <<>>)
                       /\ pc' = IF n = 0 THEN "status" ELSE "copy_file"
       ELSE /\ copy_results' = CopyOutcome("SKIPPED", 0, <<>>)
            /\ pc' = "status"
            /\ UNCHANGED s3_objects
    /\ idx' = 1
    /\ UNCHANGED <<tables_to_backup, export_results, export_arns,
                   remaining_exports, completed_exports, timed_out_exports,
                   elapsed, manifest, manifest_key, summary,
                   offsite_puts, statusCode, start_outcome, final_poll_log>>

\* One iteration of the per-object loop of copy_to_backblaze: get_object from
\* the primary storage and put_object to the offsite store; an error of either
\* is recorded and the loop goes on.
CopyFile ==
    /\ pc = "copy_file"
    /\ UNCHANGED <<restoreVars, auxVars>>
    /\ idx <= s3_objects
    /\ \E copied \in BOOLEAN :
          IF copied
          THEN /\ copy_results' =
                      [copy_results EXCEPT !.files_copied = @ + 1]
               /\ offsite_puts' = offsite_puts + 1
          ELSE /\ copy_results' =
                      [copy_results EXCEPT
                          !.errors = Append(@, "copy_failed"),
                          !.status = IF copy_results.files_copied > 0
                                     THEN "PARTIAL_SUCCESS" ELSE "FAILED"]
               /\ UNCHANGED offsite_puts
    /\ idx' = idx + 1
    /\ UNCHANGED <<pc, tables_to_backup, export_results, export_arns,
                   remaining_exports, completed_exports, timed_out_exports,
                   elapsed, manifest, manifest_key, summary,
                   s3_objects, statusCode, start_outcome, final_poll_log>>

\* After the loop copy_to_backblaze writes its own manifest to the offsite
\* store; if that raises, the outer handler returns a FAILED outcome.
PutCopyManifest ==
    /\ pc = "copy_file"
    /\ UNCHANGED <<restoreVars, auxVars>>
    /\ idx > s3_objects
    /\ \E put_ok \in BOOLEAN :
          IF put_ok
          THEN /\ offsite_puts' = offsite_puts + 1
               /\ UNCHANGED copy_results
          ELSE /\ copy_results' = CopyOutcome("FAILED", 0, <<"manifest_put">>)
               /\ UNCHANGED offsite_puts
    /\ pc' = "status"
    /\ UNCHANGED <<tables_to_backup, export_results, export_arns,
                   remaining_exports, completed_exports, timed_out_exports, idx,
                   elapsed, manifest, manifest_key, summary,
                   s3_objects, statusCode, start_outcome, final_poll_log>>

\* status_code = _determine_status_code(...); return
DetermineStatus ==
    /\ pc = "status"
    /\ UNCHANGED <<restoreVars, auxVars>>
    /\ statusCode' = determine_status_code(summary.failed_exports,
                                            summary.successful_exports,
                                            copy_results)
    /\ pc' = "done"
    /\ UNCHANGED <<tables_to_backup, export_results, export_arns,
                   remaining_exports, completed_exports, timed_out_exports, idx,
                   elapsed, manifest, manifest_key, summary,
                   s3_objects, copy_results, offsite_puts, start_outcome,
                   final_poll_log>>

NextExport ==
    \/ GetConfiguration
    \/ StartTable
    \/ EnterMonitor
    \/ WhileCheck
    \/ PollExport
    \/ EndRound
    \/ HandleTimedOut
    \/ ExtendTimedOut
    \/ UpdateResults
    \/ CreateManifest
    \/ CalculateSummary
    \/ HandleBackblazeCopy
    \/ CopyFile
    \/ PutCopyManifest
    \/ DetermineStatus

InitExport ==
    /\ ExportStart
    /\ TableRestoreIdle /\ HandlerIdle
    /\ LocateIdle /\ TwiceIdle /\ RoundTripIdle
    /\ WriteBatchIdle /\ ClearIdle /\ OffsiteCopyIdle

SpecExport == InitExport /\ [][NextExport]_vars

\* An export run with every setting in place, whose control task is one
\* thread that is never held up for good: every remote call answers or
\* raises, and every sleep ends.
InitExportFair == InitExport /\ ConfigIdle

SpecExportFair ==
    InitExportFair /\ [][NextExport]_vars /\ WF_vars(NextExport)

----------------------------------------------------------------------------
\* Properties of the export run

Terminal == {"COMPLETED", "FAILED"}

ManifestBuilt == manifest.total_exports >= 0

TimedOut(e) == Get(e, "timeout", FALSE)

\* sum of field k over the entries whose status is COMPLETED
SumCompleted(results, k) ==
    SumSeq([i \in 1..Len(results) |->
               IF results[i].status = "COMPLETED" THEN Get(results[i], k, 0)
               ELSE 0])

\* C1: in every manifest built from the results of an export run,
\* successful_exports + failed_exports = total_exports.
C1_ManifestCountsAddUp ==
    ManifestBuilt =>
        manifest.successful_exports + manifest.failed_exports
            = manifest.total_exports

\* C2: in every manifest, total_items_exported and total_size_bytes are the
\* sums of item_count and billing_size_bytes over exactly the entries whose
\* status is COMPLETED.
C2_TotalsOnlyOverCompleted ==
    ManifestBuilt =>
        /\ manifest.total_items_exported =
               SumCompleted(manifest.exports, "item_count")
        /\ manifest.total_size_bytes =
               SumCompleted(manifest.exports, "billing_size_bytes")

\* C4: the monitor's clock never passes deadline + one poll interval, and when
\* it returns without any job ever having reported COMPLETED or FAILED, every
\* job it returns carries the timeout flag.
C4_BoundedDeadline ==
    /\ pc \in {"while", "poll", "timeout", "return"} =>
           elapsed <= MaxWaitTime + PollInterval
    /\ (/\ pc = "return"
        /\ \A i \in 1..Len(completed_exports) :
               completed_exports[i].status \notin Terminal)
       => /\ Len(completed_exports) = Len(export_arns)
          /\ \A i \in 1..Len(completed_exports) : TimedOut(completed_exports[i])

\* C4 witness: the monitor returned at the deadline with two jobs, neither of
\* which ever reported a terminal status.
C4_Witness ==
    /\ pc = "return"
    /\ elapsed = MaxWaitTime
    /\ Len(completed_exports) = 2
    /\ \A i \in 1..Len(completed_exports) :
           /\ completed_exports[i].status \notin Terminal
           /\ TimedOut(completed_exports[i])

\* C5: when the monitor returns, every job still active at the deadline was
\* polled exactly once after it, and is returned exactly once, flagged timed
\* out, with the status that poll observed; every other returned job was
\* observed COMPLETED or FAILED and carries no timeout flag.
C5_FinalPollAndFlag ==
    pc = "return" =>
        /\ Len(final_poll_log) = Len(export_arns)
        /\ \A k \in 1..Len(export_arns) :
              /\ Cardinality({j \in 1..Len(final_poll_log) :
                     final_poll_log[j].export_arn = export_arns[k]}) = 1
              /\ Cardinality({i \in 1..Len(completed_exports) :
                     completed_exports[i].export_arn = export_arns[k]}) = 1
              /\ \A i \in 1..Len(completed_exports) :
                     completed_exports[i].export_arn = export_arns[k] =>
                        /\ TimedOut(completed_exports[i])
                        /\ \A j \in 1..Len(final_poll_log) :
                               final_poll_log[j].export_arn = export_arns[k] =>
                                  completed_exports[i].status
                                      = final_poll_log[j].status
        /\ \A i \in 1..Len(completed_exports) :
              (\A k \in 1..Len(export_arns) :
                   export_arns[k] # completed_exports[i].export_arn) =>
                 /\ "timeout" \notin DOMAIN completed_exports[i]
                 /\ completed_exports[i].status \in Terminal

\* C5 witness: one job finished before the deadline, the other was still
\* active at it and its final poll observed COMPLETED.
C5_Witness ==
    /\ pc = "return"
    /\ elapsed >= MaxWaitTime
    /\ \E i, j \in 1..Len(completed_exports) :
          /\ ~TimedOut(completed_exports[i])
          /\ completed_exports[i].status = "FAILED"
          /\ TimedOut(completed_exports[j])
          /\ completed_exports[j].status = "COMPLETED"

\* C6: a table whose export fails to start gets a result entry with status
\* FAILED and no job handle, and the start of every configured table is
\* attempted whatever happened to the earlier ones: once the start phase is
\* over there is one attempt and one entry per configured table.
C6_StartFailureIsolated ==
    /\ Len(start_outcome) <= Len(tables_to_backup)
    /\ \A i \in 1..Len(start_outcome) :
          start_outcome[i] # "ok" =>
             /\ i <= Len(export_results)
             /\ export_results[i].status = "FAILED"
             /\ "export_arn" \notin DOMAIN export_results[i]
    /\ ((pc \notin {"config", "start"} /\ missing_setting \notin HandlerSettings) =>
           /\ Len(start_outcome) = Len(tables_to_backup)
           /\ Len(export_results) = Len(tables_to_backup))

\* C6 witness: the first table failed to start, the second was started after
\* it and its export completed; the run is over.
C6_Witness ==
    /\ pc = "done"
    /\ Len(start_outcome) = 2
    /\ start_outcome[1] = "table_not_found"
    /\ start_outcome[2] = "ok"
    /\ export_results[2].status = "COMPLETED"

\* C7: the export run's status code is 200 only when every configured table's
\* export ended COMPLETED and the offsite copy reported no error, 207 when at
\* least one export COMPLETED and at least one failed, and 500 when no export
\* COMPLETED and at least one failed.
C7_StatusCodeEncodesOutcome ==
    pc = "done" =>
        LET successful == CountStatus(export_results, {"COMPLETED"})
            failed == CountStatus(export_results, {"FAILED", "UNKNOWN"})
        IN  /\ statusCode = 200 =>
                 /\ successful = Len(tables_to_backup)
                 /\ copy_results.errors = <<>>
            /\ (successful >= 1 /\ failed >= 1) => statusCode = 207
            /\ (successful = 0 /\ failed >= 1) => statusCode = 500

\* C8: when a job is returned timed out with a status other than COMPLETED or
\* FAILED, the run's status code is 202.
C8_StillRunningIs202 ==
    (/\ pc = "done"
     /\ \E i \in 1..Len(export_results) :
           /\ TimedOut(export_results[i])
           /\ export_results[i].status \notin Terminal)
    => statusCode = 202

----------------------------------------------------------------------------
\* disaster_recovery: restore_table_from_s3_export and
\* batch_write_items_to_table, for one table.  Items are counted, not named:
\* a data file is the number of items parse_dynamodb_json_file returns for it
\* (0 for a file that is empty or cannot be read), a batch is its length.

\* Inputs
FileItemCounts == {0, 10, 60}
WorkerCounts == {1, 5}

Min(a, b) == IF a < b THEN a ELSE b

\* What one batch_write_item call with n put requests can answer: an error, or
\* a response leaving u of the n requests unprocessed (none, some, or all).
ResponseKinds == {"error", "all_written", "some_unprocessed", "all_unprocessed"}

ResponseOf(kind, n) ==
    [error |-> kind = "error",
     unprocessed |-> IF kind = "some_unprocessed" THEN Min(4, n)
                     ELSE IF kind = "all_unprocessed" THEN n
                     ELSE 0]

WriteResponses(n) == {ResponseOf(kind, n) : kind \in ResponseKinds}

\* range(0, total_items, 25): the batches submitted, in order
NewChunk(size) ==
    [size |-> size, state |-> "queued", attempt |-> 0, put_requests |-> size,
     batch_successful |-> 0, batch_failed |-> 0, calls |-> 0, slept |-> 0]

\* time.sleep(min(2 ** attempt, 10)) before the next attempt
backoff(attempt) == Min(2 ^ attempt, 10)

\* (a variant that waits the same time before every retry)
Retry_without_backoff(ch, put_requests, successful) ==
    [ch EXCEPT !.put_requests = put_requests,
               !.batch_successful = successful,
               !.attempt = @ + 1, !.calls = @ + 1,
               !.slept = @ + 1]

\* the call is over and write_batch goes round its loop again
Retry(ch, put_requests, successful) ==
    [ch EXCEPT !.put_requests = put_requests,
               !.batch_successful = successful,
               !.attempt = @ + 1, !.calls = @ + 1,
               !.slept = @ + backoff(ch.attempt)]

ChunkCount(n) == (n + BatchLimit - 1) \div BatchLimit

\* (a variant whose last batch is as long as the others)
MakeChunksFullSize(n) ==
    [c \in 1..ChunkCount(n) |-> NewChunk(BatchLimit)]

MakeChunks(n) ==
    [c \in 1..ChunkCount(n) |->
        NewChunk(Min(BatchLimit, n - (c - 1) * BatchLimit))]

\* write_batch returns (batch_successful, batch_failed): the future holds the
\* result, and the locals of the call (attempt, put_requests) are gone.
Finished(ch, successful, failed) ==
    [ch EXCEPT !.state = "done", !.attempt = 0, !.put_requests = 0,
               !.batch_successful = successful, !.batch_failed = failed,
               !.calls = @ + 1]

\* (a variant whose worker drops its batch when the last attempt ends in an
\* error, leaving the future without a result)
write_attempt_abandoning(ch, resp) ==
    IF resp.error
    THEN IF ch.attempt < MaxRetries - 1
         THEN Retry(ch, ch.put_requests, ch.batch_successful)
         ELSE [ch EXCEPT !.state = "abandoned", !.calls = @ + 1]
    ELSE IF resp.unprocessed > 0 /\ ch.attempt < MaxRetries - 1
    THEN Retry(ch, resp.unprocessed, ch.size - resp.unprocessed)
    ELSE IF resp.unprocessed > 0
    THEN Finished(ch, ch.size - resp.unprocessed, resp.unprocessed)
    ELSE Finished(ch, ch.size, 0)

\* (a variant that gives a batch up on its first error)
write_attempt_failing_at_once(ch, resp) ==
    IF resp.error
    THEN Finished(ch, 0, ch.size)
    ELSE IF resp.unprocessed > 0 /\ ch.attempt < MaxRetries - 1
    THEN Retry(ch, resp.unprocessed, ch.size - resp.unprocessed)
    ELSE IF resp.unprocessed > 0
    THEN Finished(ch, ch.size - resp.unprocessed, resp.unprocessed)
    ELSE Finished(ch, ch.size, 0)

\* (a variant whose last-attempt error path keeps the earlier success count)
write_attempt_keeps_successful(ch, resp) ==
    IF resp.error
    THEN IF ch.attempt < MaxRetries - 1
         THEN Retry(ch, ch.put_requests, ch.batch_successful)
         ELSE Finished(ch, ch.batch_successful, ch.size)
    ELSE IF resp.unprocessed > 0 /\ ch.attempt < MaxRetries - 1
    THEN Retry(ch, resp.unprocessed, ch.size - resp.unprocessed)
    ELSE IF resp.unprocessed > 0
    THEN Finished(ch, ch.size - resp.unprocessed, resp.unprocessed)
    ELSE Finished(ch, ch.size, 0)

\* write_batch: one pass of its retry loop, given the answer of the call.
\*   error, attempts left      -> sleep, retry the same requests
\*   error, last attempt       -> raise: the whole batch failed
\*   unprocessed, attempts left -> sleep, retry the unprocessed requests
\*   unprocessed, last attempt -> they are failed, the rest successful
\*   nothing unprocessed       -> the whole batch successful
write_attempt(ch, resp) ==
    IF resp.error
    THEN IF ch.attempt < MaxRetries - 1
         THEN Retry(ch, ch.put_requests, ch.batch_successful)
         ELSE Finished(ch, 0, ch.size)
    ELSE IF resp.unprocessed > 0 /\ ch.attempt < MaxRetries - 1
    THEN Retry(ch, resp.unprocessed, ch.size - resp.unprocessed)
    ELSE IF resp.unprocessed > 0
    THEN Finished(ch, ch.size - resp.unprocessed, resp.unprocessed)
    ELSE Finished(ch, ch.size, 0)

\* The status restore_table_from_s3_export derives from its totals
restore_status(written, failed) ==
    IF failed = 0 THEN "COMPLETED"
    ELSE IF written > 0 THEN "PARTIAL_SUCCESS"
    ELSE "FAILED"

FailedResult(error) == [status |-> "FAILED", error |-> error]

ExportIdle ==
    /\ pc = "idle"
    /\ tables_to_backup = <<>>
    /\ export_results = <<>>
    /\ export_arns = <<>>
    /\ remaining_exports = <<>>
    /\ completed_exports = <<>>
    /\ timed_out_exports = <<>>
    /\ idx = 0
    /\ elapsed = 0
    /\ manifest = NoManifest
    /\ manifest_key = NoKey
    /\ summary = NoSummary
    /\ s3_objects = 0
    /\ copy_results = NoCopy
    /\ offsite_puts = 0
    /\ statusCode = 0
    /\ start_outcome = <<>>
    /\ final_poll_log = <<>>

RestoreTableStart ==
    /\ rpc = "clear"
    /\ clear_existing \in BOOLEAN
    /\ max_workers \in WorkerCounts
    /\ data_files = <<>>
    /\ file_i = 0
    /\ written_failed = <<0, 0>>
    /\ total_items_processed = 0
    /\ total_items_written = 0
    /\ total_items_failed = 0
    /\ restore_result = NoResult
    /\ total_items = 0
    /\ chunks = <<>>
    /\ items_written = 0
    /\ failed_items = 0
    /\ batch_count = 0

InitRestoreTable ==
    RestoreTableStart /\ ExportIdle /\ HandlerIdle /\ AuxIdle

\* if clear_existing: clear_existing_table_data; a failed clear raises, which
\* the function's except turns into a FAILED result.
ClearExisting ==
    /\ rpc = "clear"
    /\ IF clear_existing
       THEN \E success \in BOOLEAN :
               IF success
               THEN rpc' = "discover" /\ UNCHANGED restore_result
               ELSE /\ rpc' = "done"
                    /\ restore_result' =
                           FailedResult("Failed to clear existing table data")
       ELSE rpc' = "discover" /\ UNCHANGED restore_result
    /\ UNCHANGED <<clear_existing, max_workers, data_files, file_i,
                   written_failed, total_items_processed, total_items_written,
                   total_items_failed, batchWriteVars, exportVars, handlerVars, auxVars>>

\* data_files = get_export_data_files(...): a non-empty list, or an exception
\* (FAILED result).  The totals start at 0.
GetDataFiles ==
    /\ rpc = "discover"
    /\ \E found \in BOOLEAN :
          IF found
          THEN \E n \in 1..MaxFiles :
                  \E files \in [1..n -> FileItemCounts] :
                     /\ data_files' = files
                     /\ file_i' = 1
                     /\ rpc' = "file"
                     /\ UNCHANGED restore_result
          ELSE /\ rpc' = "done"
               /\ restore_result' = FailedResult("No data files found")
               /\ UNCHANGED <<data_files, file_i>>
    /\ UNCHANGED <<clear_existing, max_workers, written_failed,
                   total_items_processed, total_items_written,
                   total_items_failed, batchWriteVars, exportVars, handlerVars, auxVars>>

\* Top of the per-file loop: parse the file; with no items go on to the next
\* file, else call batch_write_items_to_table, which submits every batch.
ParseFile ==
    /\ rpc = "file"
    /\ file_i <= Len(data_files)
    /\ IF data_files[file_i] = 0
       THEN /\ file_i' = file_i + 1
            /\ UNCHANGED <<rpc, batchWriteVars>>
       ELSE /\ total_items' = data_files[file_i]
            /\ chunks' = MakeChunks(data_files[file_i])
            /\ items_written' = 0
            /\ failed_items' = 0
            /\ batch_count' = 0
            /\ rpc' = "write"
            /\ UNCHANGED file_i
    /\ UNCHANGED <<clear_existing, max_workers, data_files, written_failed,
                   total_items_processed, total_items_written,
                   total_items_failed, restore_result, exportVars, handlerVars, auxVars>>

Running == {c \in 1..Len(chunks) : chunks[c].state = "running"}
Queued == {c \in 1..Len(chunks) : chunks[c].state = "queued"}

\* A free worker of the pool takes the oldest queued batch.
WorkerTake ==
    /\ rpc = "write"
    /\ Queued # {}
    /\ Cardinality(Running) < max_workers
    /\ LET c == CHOOSE c \in Queued : \A d \in Queued : c <= d
       IN  chunks' = [chunks EXCEPT ![c].state = "running"]
    /\ UNCHANGED <<tableRestoreVars, total_items, items_written, failed_items,
                   batch_count, exportVars, handlerVars, auxVars>>

\* (a variant in which the worker itself adds its batch's counts to the
\* totals when its call returns)
WriteAttemptCounting ==
    /\ rpc = "write"
    /\ \E c \in Running :
          \E resp \in WriteResponses(chunks[c].put_requests) :
             LET ch == write_attempt(chunks[c], resp)
             IN  /\ chunks' = [chunks EXCEPT ![c] = ch]
                 /\ items_written' =
                        IF ch.state = "done"
                        THEN items_written + ch.batch_successful
                        ELSE items_written
                 /\ failed_items' =
                        IF ch.state = "done"
                        THEN failed_items + ch.batch_failed
                        ELSE failed_items
    /\ UNCHANGED <<tableRestoreVars, total_items, batch_count, exportVars,
                   handlerVars, auxVars>>

\* A worker makes one batch_write_item call for its batch.
WriteAttempt ==
    /\ rpc = "write"
    /\ \E c \in Running :
          \E resp \in WriteResponses(chunks[c].put_requests) :
             chunks' = [chunks EXCEPT ![c] = write_attempt(chunks[c], resp)]
    /\ UNCHANGED <<tableRestoreVars, total_items, items_written, failed_items,
                   batch_count, exportVars, handlerVars, auxVars>>

\* (a variant whose counters take the last result instead of adding it)
CollectResultOverwrites ==
    /\ rpc = "write"
    /\ \E c \in 1..Len(chunks) :
          /\ chunks[c].state = "done"
          /\ chunks' = [chunks EXCEPT ![c].state = "collected",
                                      ![c].calls = 0, ![c].slept = 0]
          /\ items_written' = chunks[c].batch_successful
          /\ failed_items' = chunks[c].batch_failed
          /\ batch_count' = batch_count + 1
    /\ UNCHANGED <<tableRestoreVars, total_items, exportVars, handlerVars, auxVars>>

\* The coordinator takes the next completed future (as_completed) and adds its
\* result to the counters; what else the future's call left behind is gone.
CollectResult ==
    /\ rpc = "write"
    /\ \E c \in 1..Len(chunks) :
          /\ chunks[c].state = "done"
          /\ chunks' = [chunks EXCEPT ![c].state = "collected",
                                      ![c].calls = 0, ![c].slept = 0]
          /\ items_written' = items_written + chunks[c].batch_successful
          /\ failed_items' = failed_items + chunks[c].batch_failed
          /\ batch_count' = batch_count + 1
    /\ UNCHANGED <<tableRestoreVars, total_items, exportVars, handlerVars, auxVars>>

\* (a variant that returns once every batch has been taken by a worker,
\* leaving the calls that are still under way behind)
ReturnBatchWriteNotWaiting ==
    /\ rpc = "write"
    /\ Queued = {}
    /\ written_failed' =
           <<total_items - failed_items, failed_items>>
    /\ rpc' = "add_processed"
    /\ UNCHANGED <<clear_existing, max_workers, data_files, file_i,
                   total_items_processed, total_items_written,
                   total_items_failed, restore_result, batchWriteVars,
                   exportVars, handlerVars, auxVars>>

\* Every future is collected: return items_written, failed_items.  The
\* function's locals go out of scope.
ReturnBatchWrite ==
    /\ rpc = "write"
    /\ \A c \in 1..Len(chunks) : chunks[c].state = "collected"
    /\ written_failed' = <<items_written, failed_items>>
    /\ rpc' = "add_processed"
    /\ total_items' = 0
    /\ chunks' = <<>>
    /\ items_written' = 0
    /\ failed_items' = 0
    /\ batch_count' = 0
    /\ UNCHANGED <<clear_existing, max_workers, data_files, file_i,
                   total_items_processed, total_items_written,
                   total_items_failed, restore_result, exportVars, handlerVars, auxVars>>

\* total_items_processed += len(items)
AddProcessed ==
    /\ rpc = "add_processed"
    /\ total_items_processed' = total_items_processed + data_files[file_i]
    /\ rpc' = "add_written"
    /\ UNCHANGED <<clear_existing, max_workers, data_files, file_i,
                   written_failed, total_items_written, total_items_failed,
                   restore_result, batchWriteVars, exportVars, handlerVars, auxVars>>

\* total_items_written += written
AddWritten ==
    /\ rpc = "add_written"
    /\ total_items_written' = total_items_written + written_failed[1]
    /\ rpc' = "add_failed"
    /\ UNCHANGED <<clear_existing, max_workers, data_files, file_i,
                   written_failed, total_items_processed, total_items_failed,
                   restore_result, batchWriteVars, exportVars, handlerVars, auxVars>>

\* total_items_failed += failed; then the next file
AddFailed ==
    /\ rpc = "add_failed"
    /\ total_items_failed' = total_items_failed + written_failed[2]
    /\ file_i' = file_i + 1
    /\ written_failed' = <<0, 0>>
    /\ rpc' = "file"
    /\ UNCHANGED <<clear_existing, max_workers, data_files,
                   total_items_processed, total_items_written, restore_result,
                   batchWriteVars, exportVars, handlerVars, auxVars>>

\* After the last file: the status and the result dict.
FinishRestore ==
    /\ rpc = "file"
    /\ file_i > Len(data_files)
    /\ restore_result' =
           [status |-> restore_status(total_items_written, total_items_failed),
            total_files_processed |-> Len(data_files),
            items_processed |-> total_items_processed,
            items_written |-> total_items_written,
            items_failed |-> total_items_failed]
    /\ rpc' = "done"
    /\ UNCHANGED <<clear_existing, max_workers, data_files, file_i,
                   written_failed, total_items_processed, total_items_written,
                   total_items_failed, batchWriteVars, exportVars, handlerVars, auxVars>>

NextRestoreTable ==
    \/ ClearExisting
    \/ GetDataFiles
    \/ ParseFile
    \/ WorkerTake
    \/ WriteAttempt
    \/ CollectResult
    \/ ReturnBatchWrite
    \/ AddProcessed
    \/ AddWritten
    \/ AddFailed
    \/ FinishRestore

SpecRestoreTable == InitRestoreTable /\ [][NextRestoreTable]_vars

----------------------------------------------------------------------------
\* Properties of the table restore

\* C3: in every state of a table's batch-write restore
\* items_written + items_failed <= items_processed, for the table's totals and
\* for the counters of the batch write in progress, and when the restore has
\* finished the result has items_written + items_failed = items_processed.
C3_WrittenPlusFailed ==
    /\ total_items_written + total_items_failed <= total_items_processed
    /\ items_written + failed_items <= total_items
    /\ rpc = "add_processed" =>
           written_failed[1] + written_failed[2] = data_files[file_i]
    /\ rpc = "done" =>
           Get(restore_result, "items_written", 0)
               + Get(restore_result, "items_failed", 0)
           = Get(restore_result, "items_processed", 0)

\* C3 witness: a restore of two files (60 and 10 items) has finished with
\* some items written and some failed.
C3_Witness ==
    /\ rpc = "done"
    /\ restore_result.status = "PARTIAL_SUCCESS"
    /\ restore_result.items_processed = 70
    /\ restore_result.items_failed = 29
    /\ restore_result.items_written = 41

----------------------------------------------------------------------------
\* disaster_recovery: lambda_handler.  Here items are named: a table is the
\* set of its item keys, a data file is a list of item keys, so that what a
\* run does to the tables can be compared with what they held before.

\* get_tables_to_restore: the three tables, by their short names
all_available_tables == <<"u2f", "totp", "api-key">>

Range(s) == {s[i] : i \in 1..Len(s)}

\* The tables of the account a manifest may have an entry for: the three,
\* and one that is not on the list
manifest_tables == all_available_tables \o <<"bogus">>

\* Inputs: event['tables'], event['backup_date'], the tables' contents
RequestedTables ==
    {<<>>, <<"u2f">>, <<"totp", "u2f">>, <<"u2f", "bogus">>, <<"bogus">>}
BackupDates == {"latest", "2025-01-15"}
TableContents == {{}, {1, 99}}
Events ==
    [tables : RequestedTables, backup_date : BackupDates,
     dry_run : BOOLEAN, clear_existing_data : BOOLEAN]

\* What the manifest can say about one table: nothing, or an entry
EntryKinds ==
    {"absent", "completed", "failed", "in_progress", "unknown", "no_prefix"}

EntryOf(t, kind) ==
    [table_name |-> t,
     s3_prefix |-> IF kind = "no_prefix" THEN "" ELSE "native-exports",
     status |-> IF kind = "failed" THEN "FAILED"
                ELSE IF kind = "in_progress" THEN "IN_PROGRESS"
                ELSE IF kind = "unknown" THEN "UNKNOWN"
                ELSE "COMPLETED"]

\* manifest['exports'] for a choice of entry kind per table
RECURSIVE ManifestExports(_, _)
ManifestExports(kinds, ts) ==
    IF ts = <<>> THEN <<>>
    ELSE LET rest == ManifestExports(kinds, Tail(ts))
         IN  IF kinds[Head(ts)] = "absent" THEN rest
             ELSE <<EntryOf(Head(ts), kinds[Head(ts)])>> \o rest

\* validate_export_info, TRUE when it does not raise
validate_export_info(export_info) ==
    /\ export_info.table_name # ""
    /\ export_info.s3_prefix # ""
    /\ export_info.status # ""
    /\ export_info.status = "COMPLETED"

\* the export lookup built from the manifest
build_available_exports(exports, tables) ==
    LET valid == {i \in 1..Len(exports) :
                     /\ validate_export_info(exports[i])
                     /\ exports[i].table_name \in Range(tables)}
    IN  [t \in {exports[i].table_name : i \in valid} |->
            exports[CHOOSE i \in valid :
                       /\ exports[i].table_name = t
                       /\ \A j \in valid :
                             exports[j].table_name = t => j <= i]]

\* (a variant that takes the requested tables as they are)
FilterTablesKeepingAll(ts) == ts

\* [table for table in specific_tables if table in all_available_tables]
RECURSIVE FilterTables(_)
FilterTables(ts) ==
    IF ts = <<>> THEN <<>>
    ELSE IF Head(ts) \in Range(all_available_tables)
         THEN <<Head(ts)>> \o FilterTables(Tail(ts))
         ELSE FilterTables(Tail(ts))

\* Remote operations, by client and method
ReadCalls == {"s3.list_objects_v2", "s3.get_object", "s3.head_object"}
ClearCalls == {"dynamodb.describe_table", "dynamodb.scan"}
WriteCall == "dynamodb.batch_write_item"

\* The item keys of the one data file of a table's export
DataFileCounts == {0, 1}
FileKeys == <<1, 2, 3, 4, 5>>

\* write_batch run to its return for one batch, given the answers of its
\* (at most MaxRetries) calls; accepted counts the put requests the store
\* took, whatever write_batch reports.
RECURSIVE run_write_batch(_, _, _)
run_write_batch(ch, kinds, accepted) ==
    IF ch.state = "done"
    THEN [written |-> ch.batch_successful, failed |-> ch.batch_failed,
          accepted |-> accepted]
    ELSE LET resp == ResponseOf(Head(kinds), ch.put_requests)
             taken == IF resp.error THEN 0
                      ELSE ch.put_requests - resp.unprocessed
         IN  run_write_batch(write_attempt(ch, resp), Tail(kinds),
                             accepted + taken)

KindSeqs == [1..MaxRetries -> ResponseKinds]

\* The status code of the restore summary
restore_status_code(results) ==
    LET successful_restores == CountStatus(results, {"COMPLETED"})
        partial_restores == CountStatus(results, {"PARTIAL_SUCCESS"})
        failed_restores == CountStatus(results, {"FAILED"})
    IN  IF failed_restores > 0 /\ successful_restores = 0 THEN 500
        ELSE IF failed_restores > 0 \/ partial_restores > 0 THEN 207
        ELSE 200

\* the branch taken once tables and exports are resolved
\* (a variant that performs the restore whatever dry_run says)
after_resolve_ignoring_dry_run(dry_run) == "restore"

after_resolve(dry_run) == IF dry_run THEN "dry_run" ELSE "restore"

\* clear_existing_table_data on a table holding these items (one scan page,
\* one delete batch): what it returns, what the table holds afterwards and
\* the calls it made.  A delete batch that raises, or that comes back with
\* unprocessed requests, is logged and not retried.
ClearOutcomes ==
    {"describe_error", "scan_error", "deleted", "delete_error", "unprocessed"}

clear_existing_table_data(items, outcome) ==
    IF outcome = "describe_error"
    THEN [success |-> FALSE, items_deleted |-> 0, items |-> items,
          calls |-> {"dynamodb.describe_table"}]
    ELSE IF outcome = "scan_error"
    THEN [success |-> FALSE, items_deleted |-> 0, items |-> items,
          calls |-> ClearCalls]
    ELSE IF items = {}
    THEN [success |-> TRUE, items_deleted |-> 0, items |-> items,
          calls |-> ClearCalls]
    ELSE [success |-> TRUE,
          items_deleted |-> IF outcome = "delete_error" THEN 0
                            ELSE BatchLimit * ChunkCount(Cardinality(items)),
          items |-> IF outcome = "deleted" THEN {} ELSE items,
          calls |-> ClearCalls \cup {WriteCall}]

\* restore_table_from_s3_export for one table of the run: the result dict,
\* the table afterwards and the calls made.  n is the number of data files
\* found, readable says whether the file parses to its items, kinds are the
\* answers of the batch writes.  The file's items fit one batch.
restore_table_from_s3_export(t, items, clear_first, clear, n, readable, kinds) ==
    LET cleared == IF clear_first
                   THEN clear_existing_table_data(items, clear)
                   ELSE [success |-> TRUE, items_deleted |-> 0,
                         items |-> items, calls |-> {}]
        failed_result(error) == [table_name |-> t, status |-> "FAILED",
                                 error |-> error]
        out == run_write_batch(NewChunk(Len(FileKeys)), kinds, 0)
    IN  IF ~cleared.success
        THEN [result |-> failed_result("Failed to clear existing table data"),
              items |-> cleared.items, calls |-> cleared.calls]
        ELSE IF n = 0
        THEN [result |-> failed_result("No data files found"),
              items |-> cleared.items,
              calls |-> cleared.calls \cup {"s3.list_objects_v2"}]
        ELSE IF ~readable
        THEN [result |-> [table_name |-> t,
                          status |-> restore_status(0, 0),
                          total_files_processed |-> n,
                          items_cleared |-> cleared.items_deleted,
                          items_processed |-> 0, items_written |-> 0,
                          items_failed |-> 0],
              items |-> cleared.items,
              calls |-> cleared.calls
                          \cup {"s3.list_objects_v2", "s3.get_object"}]
        ELSE [result |-> [table_name |-> t,
                          status |-> restore_status(out.written, out.failed),
                          total_files_processed |-> n,
                          items_cleared |-> cleared.items_deleted,
                          items_processed |-> Len(FileKeys),
                          items_written |-> out.written,
                          items_failed |-> out.failed],
              items |-> cleared.items
                          \cup {FileKeys[i] : i \in 1..out.accepted},
              calls |-> cleared.calls
                          \cup {"s3.list_objects_v2", "s3.get_object",
                                WriteCall}]

\* The restore run starts: an event, and the tables as they are.
DRStart ==
    /\ dpc = "resolve"
    /\ event \in Events
    /\ table_items \in {[t \in Range(manifest_tables) |-> c] :
                           c \in TableContents}
    /\ table_items0 = table_items
    /\ remote_calls = {}
    /\ tables_to_restore = <<>>
    /\ available_exports = <<>>
    /\ validation_results = <<>>
    /\ restore_results = <<>>
    /\ table_i = 0
    /\ dr_status = 0
    /\ dr_error = ""

InitDR == DRStart /\ ExportIdle /\ TableRestoreIdle /\ AuxIdle

\* lambda_handler up to the dry-run test: environment, requested tables,
\* backup date, manifest, export lookup.  Any failure raises into the
\* handler's except clause, which returns 500.
DRResolve ==
    /\ dpc = "resolve"
    /\ \E env_ok \in BOOLEAN, backups_found \in BOOLEAN,
          manifest_found \in BOOLEAN,
          kinds \in [Range(manifest_tables) -> EntryKinds] :
        LET specific_tables == event.tables
            tables == IF specific_tables # <<>>
                      THEN FilterTables(specific_tables)
                      ELSE all_available_tables
            latest == event.backup_date = "latest"
            exports == build_available_exports(
                           ManifestExports(kinds, manifest_tables),
                           tables)
            stage == IF ~env_ok THEN "environment"
                     ELSE IF tables = <<>> THEN "tables"
                     ELSE IF latest /\ ~backups_found THEN "backups"
                     ELSE IF ~manifest_found THEN "manifest"
                     ELSE IF DOMAIN exports = {} THEN "exports"
                     ELSE "ok"
            list_calls == IF latest THEN {"s3.list_objects_v2"} ELSE {}
            calls == IF stage \in {"environment", "tables"} THEN {}
                     ELSE IF stage = "backups" THEN list_calls
                     ELSE list_calls \cup {"s3.get_object"}
        IN  /\ remote_calls' = remote_calls \cup calls
            /\ IF stage = "ok"
               THEN /\ tables_to_restore' = tables
                    /\ available_exports' = exports
                    /\ table_i' = 1
                    /\ dpc' = after_resolve(event.dry_run)
                    /\ dr_status' = dr_status
                    /\ dr_error' = dr_error
               ELSE /\ dpc' = "done"
                    /\ dr_status' = 500
                    /\ dr_error' = stage
                    /\ UNCHANGED <<tables_to_restore, available_exports,
                                   table_i>>
    /\ UNCHANGED <<event, table_items, table_items0, validation_results,
                   restore_results, exportVars, tableRestoreVars,
                   batchWriteVars, auxVars>>

\* Dry run: one pass of the loop over tables_to_restore.  Data files are
\* looked for (list) and sized (head); nothing else is called.
DryRunTable ==
    /\ dpc = "dry_run"
    /\ table_i <= Len(tables_to_restore)
    /\ LET table_name == tables_to_restore[table_i]
       IN  IF table_name \in DOMAIN available_exports
           THEN \E n \in DataFileCounts :
                  IF n = 0
                  THEN /\ validation_results' = Append(validation_results,
                              [table_name |-> table_name,
                               status |-> "ERROR"])
                       /\ remote_calls' =
                              remote_calls \cup {"s3.list_objects_v2"}
                  ELSE /\ validation_results' = Append(validation_results,
                              [table_name |-> table_name,
                               status |-> "READY",
                               data_files_count |-> n])
                       /\ remote_calls' =
                              remote_calls \cup {"s3.list_objects_v2",
                                                 "s3.head_object"}
           ELSE /\ validation_results' = Append(validation_results,
                       [table_name |-> table_name, status |-> "NO_EXPORT"])
                /\ remote_calls' = remote_calls
    /\ table_i' = table_i + 1
    /\ UNCHANGED <<dpc, event, table_items, table_items0, tables_to_restore,
                   available_exports, restore_results, dr_status,
                   dr_error,
                   exportVars, tableRestoreVars, batchWriteVars,
                   auxVars>>

\* Dry run: the loop is over, the summary is returned with 200.
DryRunReturn ==
    /\ dpc = "dry_run"
    /\ table_i > Len(tables_to_restore)
    /\ dr_status' = 200
    /\ dpc' = "done"
    /\ UNCHANGED <<event, table_items, table_items0, remote_calls,
                   tables_to_restore, available_exports, validation_results,
                   restore_results, table_i, dr_error,
                   exportVars, tableRestoreVars, batchWriteVars,
                   auxVars>>

\* Restore: a table without a valid export is skipped.
SkipTable ==
    /\ dpc = "restore"
    /\ table_i <= Len(tables_to_restore)
    /\ tables_to_restore[table_i] \notin DOMAIN available_exports
    /\ restore_results' = Append(restore_results,
           [table_name |-> tables_to_restore[table_i],
            status |-> "SKIPPED"])
    /\ table_i' = table_i + 1
    /\ UNCHANGED <<dpc, event, table_items, table_items0, remote_calls,
                   tables_to_restore, available_exports, validation_results,
                   dr_status, dr_error,
                   exportVars, tableRestoreVars, batchWriteVars,
                   auxVars>>

\* (a variant in which a table's failure ends the run)
RestoreTableAborting ==
    /\ dpc = "restore"
    /\ table_i <= Len(tables_to_restore)
    /\ tables_to_restore[table_i] \in DOMAIN available_exports
    /\ \E clear \in ClearOutcomes, n \in DataFileCounts,
          readable \in BOOLEAN, kinds \in KindSeqs :
        LET table_name == tables_to_restore[table_i]
            r == restore_table_from_s3_export(
                     table_name, table_items[table_name],
                     event.clear_existing_data, clear, n, readable, kinds)
        IN  /\ restore_results' = Append(restore_results, r.result)
            /\ table_items' = [table_items EXCEPT ![table_name] = r.items]
            /\ remote_calls' = remote_calls \cup r.calls
            /\ table_i' = IF r.result.status = "FAILED"
                          THEN Len(tables_to_restore) + 1
                          ELSE table_i + 1
    /\ UNCHANGED <<dpc, event, table_items0, tables_to_restore,
                   available_exports, validation_results, dr_status,
                   dr_error, exportVars, tableRestoreVars, batchWriteVars,
                   auxVars>>

\* Restore: one table is restored from its export.
RestoreTable ==
    /\ dpc = "restore"
    /\ table_i <= Len(tables_to_restore)
    /\ tables_to_restore[table_i] \in DOMAIN available_exports
    /\ \E clear \in ClearOutcomes, n \in DataFileCounts,
          readable \in BOOLEAN, kinds \in KindSeqs :
        LET table_name == tables_to_restore[table_i]
            r == restore_table_from_s3_export(
                     table_name, table_items[table_name],
                     event.clear_existing_data, clear, n, readable, kinds)
        IN  /\ restore_results' = Append(restore_results, r.result)
            /\ table_items' = [table_items EXCEPT ![table_name] = r.items]
            /\ remote_calls' = remote_calls \cup r.calls
    /\ table_i' = table_i + 1
    /\ UNCHANGED <<dpc, event, table_items0, tables_to_restore,
                   available_exports, validation_results, dr_status,
                   dr_error,
                   exportVars, tableRestoreVars, batchWriteVars,
                   auxVars>>

\* Restore: the loop is over; the summary and its status code.
Summarize ==
    /\ dpc = "restore"
    /\ table_i > Len(tables_to_restore)
    /\ dr_status' = restore_status_code(restore_results)
    /\ dpc' = "done"
    /\ UNCHANGED <<event, table_items, table_items0, remote_calls,
                   tables_to_restore, available_exports, validation_results,
                   restore_results, table_i, dr_error,
                   exportVars, tableRestoreVars, batchWriteVars,
                   auxVars>>

NextDR ==
    \/ DRResolve
    \/ DryRunTable
    \/ DryRunReturn
    \/ SkipTable
    \/ RestoreTable
    \/ Summarize

SpecDR == InitDR /\ [][NextDR]_vars

----------------------------------------------------------------------------
\* Properties of the restore run

\* The restore branch ran to its summary
RestoreSummarized ==
    /\ dpc = "done"
    /\ ~event.dry_run
    /\ Len(tables_to_restore) > 0
    /\ Len(restore_results) = Len(tables_to_restore)

AllCompleted ==
    \A i \in 1..Len(restore_results) :
        restore_results[i].status = "COMPLETED"

NoneRestored ==
    \A i \in 1..Len(restore_results) :
        restore_results[i].status \notin {"COMPLETED", "PARTIAL_SUCCESS"}

\* C9: the restore run's status code is 200 exactly when every requested
\* table was restored with status COMPLETED (none FAILED, PARTIAL_SUCCESS or
\* SKIPPED), 500 exactly when no requested table was restored even
\* partially, and 207 in every other case.
C9_RestoreStatusCode ==
    RestoreSummarized =>
        /\ dr_status = 200 <=> AllCompleted
        /\ dr_status = 500 <=> NoneRestored
        /\ dr_status = 207 <=> (~AllCompleted /\ ~NoneRestored)

\* C10: in dry-run mode the restore run issues only list/head/get reads, so
\* every table holds after the run (and at every point of it) what it held
\* before.
C10_DryRunReadsOnly ==
    event.dry_run =>
        /\ remote_calls \subseteq ReadCalls
        /\ table_items = table_items0

\* C10 witness: a dry run over a non-empty table has returned 200 with a
\* table validated READY, having listed and sized its data files.
C10_Witness ==
    /\ dpc = "done"
    /\ event.dry_run
    /\ dr_status = 200
    /\ \E i \in 1..Len(validation_results) :
          /\ validation_results[i].status = "READY"
          /\ table_items[validation_results[i].table_name] # {}
    /\ {"s3.get_object", "s3.list_objects_v2", "s3.head_object"}
           \subseteq remote_calls

\* C11: a dry run in which a requested table has no COMPLETED export in the
\* selected manifest returns 200 with that table's validation result
\* NO_EXPORT and writes nothing - also when no requested table has one (the
\* run then ends at the "exports" test of the resolution).
C11_DryRunNoExport ==
    (/\ dpc = "done"
     /\ event.dry_run
     /\ \/ dr_error = "exports"
        \/ /\ dr_error = ""
           /\ Range(tables_to_restore) \ DOMAIN available_exports # {})
    => /\ dr_status = 200
       /\ \A t \in Range(tables_to_restore) \ DOMAIN available_exports :
             \E i \in 1..Len(validation_results) :
                /\ validation_results[i].table_name = t
                /\ validation_results[i].status = "NO_EXPORT"
       /\ remote_calls \subseteq ReadCalls
       /\ table_items = table_items0

----------------------------------------------------------------------------
\* disaster_recovery: get_export_data_files, run on its own over an object
\* store.  An object is its key below s3_prefix, as the list of directory
\* names, the file name and its suffix.  AllObjects is in key order, which is
\* the order a listing returns.  One list_objects_v2 response carries the
\* first MaxKeys matching keys (1000 in the service, scaled down here); only
\* the paginator of the recursive strategy reads the pages after it.
AllObjects ==
    <<[dirs |-> <<"AWSDynamoDB", "01", "data">>, name |-> "a", ext |-> ".json.gz"],
      [dirs |-> <<"AWSDynamoDB", "02", "data">>, name |-> "b", ext |-> ".json.gz"],
      [dirs |-> <<"AWSDynamoDB", "02">>, name |-> "summary", ext |-> ".json"],
      [dirs |-> <<>>, name |-> "c", ext |-> ".json.gz"],
      [dirs |-> <<>>, name |-> "notes", ext |-> ".txt"],
      [dirs |-> <<"sub">>, name |-> "d", ext |-> ".json"],
      [dirs |-> <<>>, name |-> "z", ext |-> ".json.gz"]>>

\* export directory names in ascending order
ExportDirs == <<"01", "02">>

Strategies == {"standard", "direct", "recursive"}

\* key.startswith(prefix), for a prefix that ends with '/'
IsPrefix(p, dirs) ==
    /\ Len(p) <= Len(dirs)
    /\ \A k \in 1..Len(p) : p[k] = dirs[k]

\* obj['Key'].endswith('.json.gz') or obj['Key'].endswith('.json')
is_data_file(o) == AllObjects[o].ext \in {".json.gz", ".json"}

Matching(store, prefix) == {o \in store : IsPrefix(prefix, AllObjects[o].dirs)}

\* s3.list_objects_v2(Prefix=prefix): the Contents of the one response
list_objects_v2(store, prefix) ==
    LET m == Matching(store, prefix)
    IN  {o \in m : Cardinality({q \in m : q < o}) < MaxKeys}

\* paginator.paginate(Prefix=prefix): the Contents of all pages
paginate(store, prefix) == Matching(store, prefix)

\* s3.list_objects_v2(Prefix=prefix, Delimiter='/'): the CommonPrefixes
common_prefixes(store, prefix) ==
    {AllObjects[o].dirs[Len(prefix) + 1] :
        o \in {q \in Matching(store, prefix) :
                  Len(AllObjects[q].dirs) > Len(prefix)}}

DataFilesOf(objs) == {o \in objs : is_data_file(o)}

\* Strategy 1: the newest export directory, its data/ and then itself
standard_files(store) ==
    LET export_dirs == common_prefixes(store, <<"AWSDynamoDB">>)
        k == CHOOSE i \in 1..Len(ExportDirs) :
                 /\ ExportDirs[i] \in export_dirs
                 /\ \A j \in 1..Len(ExportDirs) :
                       ExportDirs[j] \in export_dirs => j <= i
        export_dir == <<"AWSDynamoDB", ExportDirs[k]>>
        in_data == DataFilesOf(list_objects_v2(store, export_dir \o <<"data">>))
        in_dir == DataFilesOf(list_objects_v2(store, export_dir))
    IN  IF export_dirs = {} THEN {}
        ELSE IF in_data # {} THEN in_data
        ELSE in_dir

\* Strategy 2: one listing of everything under s3_prefix/
direct_files(store) == DataFilesOf(list_objects_v2(store, <<>>))

\* Strategy 3: all pages of the same listing
recursive_files(store) == DataFilesOf(paginate(store, <<>>))

\* What a strategy finds; a list call that raises is caught and finds nothing
found_by(strategy, store, errors) ==
    IF strategy \in errors THEN {}
    ELSE IF strategy = "standard" THEN standard_files(store)
    ELSE IF strategy = "direct" THEN direct_files(store)
    ELSE recursive_files(store)

Found(strategy, files) ==
    [status |-> "found", strategy |-> strategy, files |-> files]

LocateStart ==
    /\ loc_pc = "validate"
    /\ loc_store \in SUBSET (1..Len(AllObjects))
    /\ loc_errors \in SUBSET Strategies
    /\ loc_valid \in BOOLEAN
    /\ loc_result = NoLocateResult

InitLocate ==
    /\ LocateStart /\ TwiceIdle /\ ConfigIdle /\ RoundTripIdle
    /\ WriteBatchIdle /\ ClearIdle /\ OffsiteCopyIdle
    /\ ExportIdle /\ TableRestoreIdle /\ HandlerIdle

notLocateVars ==
    <<exportVars, restoreVars, twiceVars, configVars, roundTripVars,
      writeBatchVars, clearVars, offsiteCopyVars>>

\* validate_export_info(export_info) at the head of the function
LocateValidate ==
    /\ loc_pc = "validate"
    /\ IF loc_valid
       THEN loc_pc' = "standard" /\ loc_result' = loc_result
       ELSE loc_pc' = "done" /\ loc_result' = [status |-> "invalid"]
    /\ UNCHANGED <<loc_store, loc_errors, loc_valid, notLocateVars>>

\* one strategy: return its files, or go on to the next
TryStrategy(strategy, next) ==
    /\ loc_pc = strategy
    /\ LET files == found_by(strategy, loc_store, loc_errors)
       IN  IF files # {}
           THEN loc_pc' = "done" /\ loc_result' = Found(strategy, files)
           ELSE loc_pc' = next /\ loc_result' = loc_result
    /\ UNCHANGED <<loc_store, loc_errors, loc_valid, notLocateVars>>

LocateStandard == TryStrategy("standard", "direct")
LocateDirect == TryStrategy("direct", "recursive")
LocateRecursive == TryStrategy("recursive", "fail")

\* no strategy found a file: raise "No data files found"
LocateFail ==
    /\ loc_pc = "fail"
    /\ loc_pc' = "done"
    /\ loc_result' = [status |-> "no_data_files"]
    /\ UNCHANGED <<loc_store, loc_errors, loc_valid, notLocateVars>>

NextLocate ==
    \/ LocateValidate
    \/ LocateStandard
    \/ LocateDirect
    \/ LocateRecursive
    \/ LocateFail

SpecLocate == InitLocate /\ [][NextLocate]_vars

\* The first strategy, in the order standard, direct, recursive, that finds
\* a data file ("none" when none does)
FirstFinding(store, errors) ==
    IF found_by("standard", store, errors) # {} THEN "standard"
    ELSE IF found_by("direct", store, errors) # {} THEN "direct"
    ELSE IF found_by("recursive", store, errors) # {} THEN "recursive"
    ELSE "none"

\* the data files lie directly under s3_prefix, and nowhere else
DirectLayoutOnly(store) ==
    /\ DataFilesOf(store) # {}
    /\ \A o \in DataFilesOf(store) : AllObjects[o].dirs = <<>>

\* C12: get_export_data_files returns the files of the first strategy (in
\* the order standard, direct, recursive) that finds a data file, fails with
\* "no data files" only when all three found nothing, and for a prefix with
\* data files only under the direct layout returns exactly those files.
C12_FirstStrategyWins ==
    (loc_pc = "done" /\ loc_valid) =>
        LET first == FirstFinding(loc_store, loc_errors)
        IN  /\ loc_result.status = "no_data_files" <=> first = "none"
            /\ first # "none" =>
                  loc_result = Found(first,
                                     found_by(first, loc_store, loc_errors))
            /\ (DirectLayoutOnly(loc_store) /\ loc_errors = {}) =>
                  /\ loc_result.status = "found"
                  /\ loc_result.files = DataFilesOf(loc_store)

----------------------------------------------------------------------------
\* disaster_recovery: restore_table_from_s3_export with clear_existing=True,
\* run twice in succession on one table from one export, every remote call
\* succeeding and no response carrying unprocessed items.  Tables and files
\* are sets of item keys; a scan page and a file are cut into batches of 25
\* in key order.

\* the first n keys of a set
FirstKeys(keys, n) == {k \in keys : Cardinality({q \in keys : q < k}) < n}

\* Inputs: what the table holds before the first restore, and the export
InitialItems == {{}, {0}, 0..3, 3..9, 0..26, 0..29, 40..69, 90..120}
ExportItems == {{7}, 1..5, 1..27, 20..50, 0..60, 95..100}

TwiceStart ==
    /\ tw_pc = "clear"
    /\ tw_run = 1
    /\ tw_items \in InitialItems
    /\ tw_export \in ExportItems
    /\ tw_pending = {}
    /\ tw_counts = <<>>

InitTwice ==
    /\ TwiceStart /\ LocateIdle /\ ConfigIdle /\ RoundTripIdle
    /\ WriteBatchIdle /\ ClearIdle /\ OffsiteCopyIdle
    /\ ExportIdle /\ TableRestoreIdle /\ HandlerIdle

notTwiceVars ==
    <<exportVars, restoreVars, locateVars, configVars, roundTripVars,
      writeBatchVars, clearVars, offsiteCopyVars>>

\* clear_existing_table_data stops after its first delete batch
\* (a variant without the loops over the batches and the scan pages)
TwClearOneBatchOnly ==
    /\ tw_pc = "clear"
    /\ tw_items' = tw_items \ FirstKeys(tw_items, BatchLimit)
    /\ tw_pc' = "parse"
    /\ UNCHANGED <<tw_run, tw_export, tw_pending, tw_counts, notTwiceVars>>

\* clear_existing_table_data: one delete batch of the scanned items; when a
\* scan finds the table empty the function returns.
TwClear ==
    /\ tw_pc = "clear"
    /\ IF tw_items = {}
       THEN tw_pc' = "parse" /\ tw_items' = tw_items
       ELSE /\ tw_items' = tw_items \ FirstKeys(tw_items, BatchLimit)
            /\ tw_pc' = tw_pc
    /\ UNCHANGED <<tw_run, tw_export, tw_pending, tw_counts, notTwiceVars>>

\* parse_dynamodb_json_file: the items of the data file
TwParse ==
    /\ tw_pc = "parse"
    /\ tw_pending' = tw_export
    /\ tw_pc' = "write"
    /\ UNCHANGED <<tw_run, tw_items, tw_export, tw_counts, notTwiceVars>>

\* batch_write_items_to_table: one batch is put; every put is accepted
TwWrite ==
    /\ tw_pc = "write"
    /\ tw_pending # {}
    /\ LET batch == FirstKeys(tw_pending, BatchLimit)
       IN  /\ tw_items' = tw_items \cup batch
           /\ tw_pending' = tw_pending \ batch
    /\ UNCHANGED <<tw_pc, tw_run, tw_export, tw_counts, notTwiceVars>>

\* the restore returns; the second one starts after the first
TwReturn ==
    /\ tw_pc = "write"
    /\ tw_pending = {}
    /\ tw_counts' = Append(tw_counts, Cardinality(tw_items))
    /\ IF tw_run = 1
       THEN tw_run' = 2 /\ tw_pc' = "clear"
       ELSE tw_run' = tw_run /\ tw_pc' = "done"
    /\ UNCHANGED <<tw_items, tw_export, tw_pending, notTwiceVars>>

NextTwice ==
    \/ TwClear
    \/ TwParse
    \/ TwWrite
    \/ TwReturn

SpecTwice == InitTwice /\ [][NextTwice]_vars

\* C13: after two successive restores of one export with
\* clear_existing_data=true, all calls succeeding, the table has the same
\* item count after the second restore as after the first, whatever it held
\* at the start.
C13_SecondRestoreSameCount ==
    tw_pc = "done" =>
        /\ Len(tw_counts) = 2
        /\ tw_counts[2] = tw_counts[1]
        /\ tw_counts[2] = Cardinality(tw_export)

\* C13 witness: both restores of an export of 27 items (two write batches)
\* are done, and the table holds exactly the export's items.
C13_Witness ==
    /\ tw_pc = "done"
    /\ tw_export = 1..27
    /\ tw_items = 1..27
    /\ tw_counts = <<27, 27>>

----------------------------------------------------------------------------
\* Properties of the worker pool of batch_write_items_to_table

\* the sum of one count over the batches whose result has been collected
CollectedSum(chs, field) ==
    SumSeq([c \in 1..Len(chs) |->
               IF chs[c].state = "collected" THEN chs[c][field] ELSE 0])

\* C14: the (written, failed) totals of batch_write_items_to_table are the
\* sums of the per-batch outcomes over the batches collected so far, in
\* whatever order the batches completed and were collected; so the totals
\* returned depend on the outcomes only.
C14_TotalsIndependentOfOrder ==
    rpc = "write" =>
        /\ items_written = CollectedSum(chunks, "batch_successful")
        /\ failed_items = CollectedSum(chunks, "batch_failed")
        /\ batch_count =
              Cardinality({c \in 1..Len(chunks) :
                              chunks[c].state = "collected"})

\* C14 witness: of three batches the last one was collected first, while
\* the first one, wholly failed, is still to be collected.
C14_Witness ==
    /\ rpc = "write"
    /\ Len(chunks) = 3
    /\ chunks[3].state = "collected"
    /\ chunks[3].batch_successful = 10
    /\ chunks[1].state = "done"
    /\ chunks[1].batch_failed = BatchLimit
    /\ chunks[2].state = "collected"
    /\ chunks[2].batch_failed = 4
    /\ items_written = 31
    /\ failed_items = 4

----------------------------------------------------------------------------
\* A restore seen at both grains: the handler's loop over the tables, each
\* table restored in one step, or one table's restore with its files and
\* batches step by step.
InitRestoreRun == InitDR \/ InitRestoreTable

NextRestoreRun == NextDR \/ NextRestoreTable

SpecRestoreRun == InitRestoreRun /\ [][NextRestoreRun]_vars

\* C15: errors are isolated per table and per file.  In the handler every
\* requested table gets its entry, in order, whatever happened to the
\* tables before it (a failed restore is a FAILED entry); in a table's
\* restore every data file is processed whatever happened to the files
\* before it, and only a failed clear or an empty discovery fails the table
\* as a whole.
C15_ErrorsIsolated ==
    /\ dpc = "restore" => Len(restore_results) = table_i - 1
    /\ (dpc = "done" /\ ~event.dry_run /\ dr_error = "") =>
          /\ Len(restore_results) = Len(tables_to_restore)
          /\ \A i \in 1..Len(tables_to_restore) :
                /\ restore_results[i].table_name = tables_to_restore[i]
                /\ restore_results[i].status \in
                      {"COMPLETED", "PARTIAL_SUCCESS", "FAILED", "SKIPPED"}
    /\ (rpc = "done" /\ "error" \in DOMAIN restore_result) =>
          /\ restore_result.status = "FAILED"
          /\ total_items_processed = 0
    /\ (rpc = "done" /\ "error" \notin DOMAIN restore_result) =>
          /\ file_i = Len(data_files) + 1
          /\ restore_result.total_files_processed = Len(data_files)
          /\ restore_result.items_processed = SumSeq(data_files)

\* C15 witness: the first requested table's restore failed and the second
\* one was restored after it, its items written.
C15_Witness ==
    /\ dpc = "done"
    /\ Len(restore_results) = 2
    /\ restore_results[1].status = "FAILED"
    /\ restore_results[2].status = "COMPLETED"
    /\ restore_results[2].items_written = Len(FileKeys)
    /\ table_items[restore_results[2].table_name] # table_items0[restore_results[2].table_name]

----------------------------------------------------------------------------
\* Properties of the export run's configuration and error handling

\* C16: when a required setting is missing the export run fails as a whole
\* (500) before any remote call: no export start was attempted, no manifest
\* was built or stored, nothing was listed or copied.
C16_ConfigurationErrorBeforeAnyCall ==
    (pc = "done" /\ missing_setting # "") =>
        /\ statusCode = 500
        /\ start_outcome = <<>>
        /\ export_results = <<>>
        /\ manifest = NoManifest
        /\ manifest_key = NoKey
        /\ s3_objects = 0
        /\ offsite_puts = 0

\* Both top-level handlers: an export run or a restore run.
InitHandlers == InitExport \/ InitDR

NextHandlers == NextExport \/ NextDR

SpecHandlers == InitHandlers /\ [][NextHandlers]_vars

StatusCodes == {200, 207, 500}

\* C17: neither handler lets an error escape.  Whatever the remote calls and
\* the configuration lookups did, a handler that has not returned can go on,
\* and one that has returned has returned a status code.
C17_NoErrorEscapes ==
    /\ pc \notin {"idle", "done"} => ENABLED NextExport
    /\ pc = "done" => statusCode \in StatusCodes
    /\ dpc \notin {"idle", "done"} => ENABLED NextDR
    /\ dpc = "done" => dr_status \in StatusCodes

\* C17 witness: an export run whose table list is not configured has
\* returned 500.
C17_Witness ==
    /\ pc = "done"
    /\ missing_setting = "DYNAMODB_TABLES"
    /\ statusCode = 500
    /\ export_results = <<>>

\* C18: when the manifest's write fails, create_export_manifest returns a
\* null reference and the run goes on as usual: the summary is computed, the
\* offsite copy runs exactly when an export completed, and the status code is
\* the one _determine_status_code gives for the exports and the copy, which
\* does not depend on the manifest reference.
C18_ManifestWriteFailureTolerated ==
    (pc = "done" /\ ManifestBuilt /\ manifest_key = NoKey) =>
        /\ summary = calculate_export_summary(export_results)
        /\ copy_results # NoCopy
        /\ copy_results.status = "SKIPPED" <=> summary.successful_exports = 0
        /\ statusCode = determine_status_code(summary.failed_exports,
                                              summary.successful_exports,
                                              copy_results)

\* C18 witness: the manifest's write failed, and the run went on to copy an
\* object offsite and returned 200.
C18_Witness ==
    /\ pc = "done"
    /\ ManifestBuilt
    /\ manifest_key = NoKey
    /\ copy_results.status = "SUCCESS"
    /\ copy_results.files_copied > 0
    /\ statusCode = 200

----------------------------------------------------------------------------
\* The manifest's way from the export run to the restore run.  A key is its
\* root directory, its date directory and its file name; dates are numbered
\* in calendar order, which is the order of their YYYY-MM-DD strings.

ManifestKey(root, date) ==
    [root |-> root, date |-> date, name |-> "manifest.json"]

\* create_export_manifest: f"native-exports/{backup_date}/manifest.json"
export_manifest_key(backup_date) == ManifestKey("native-exports", backup_date)

\* get_backup_manifest: f"exports/{backup_date}/manifest.json"
restore_manifest_key(backup_date) == ManifestKey("exports", backup_date)

\* get_available_backups: the date directories under exports/
available_backups(bucket) == {k.date : k \in {q \in bucket : q.root = "exports"}}

Newest(dates) == CHOOSE d \in dates : \A e \in dates : e <= d

\* event['backup_date']: 'latest', or a date
Requests(dates) ==
    {[latest |-> TRUE, date |-> 0]}
        \cup {[latest |-> FALSE, date |-> d] : d \in dates}

\* lambda_handler of the restore, up to the manifest: the date, then the key
manifest_lookup(bucket, request) ==
    LET backups == available_backups(bucket)
        date == IF request.latest THEN Newest(backups) ELSE request.date
    IN  IF request.latest /\ backups = {}
        THEN [status |-> "no_backups"]
        ELSE IF restore_manifest_key(date) \in bucket
        THEN [status |-> "found", key |-> restore_manifest_key(date)]
        ELSE [status |-> "manifest_not_found"]

\* The bucket at the start: empty, or holding a manifest that something other
\* than the export run put under exports/ for the first date.
RoundTripStart ==
    /\ rt_pc = "export"
    /\ rt_today = 0
    /\ rt_run = 0
    /\ rt_bucket \in SUBSET {ManifestKey("exports", 1)}
    /\ rt_content = [k \in rt_bucket |-> 0]
    /\ rt_written = {}
    /\ rt_request = NoRequest
    /\ rt_result = [status |-> "none"]

InitRoundTrip ==
    /\ RoundTripStart /\ LocateIdle /\ TwiceIdle /\ ConfigIdle
    /\ WriteBatchIdle /\ ClearIdle /\ OffsiteCopyIdle
    /\ ExportIdle /\ TableRestoreIdle /\ HandlerIdle

notRoundTripVars ==
    <<exportVars, restoreVars, locateVars, twiceVars, configVars,
      writeBatchVars, clearVars, offsiteCopyVars>>

\* An export run reaches create_export_manifest, on the day after the
\* latest run or later on the same day (backup_date is the day the run
\* starts on); s3.put_object stores the run's manifest under the date's key,
\* whatever is there, or fails.
RtExportRun ==
    /\ rt_pc = "export"
    /\ rt_run < MaxRuns
    /\ rt_run' = rt_run + 1
    /\ \E backup_date \in {d \in {rt_today, rt_today + 1} :
                               d >= 1 /\ d <= MaxDates} :
          /\ rt_today' = backup_date
          /\ \E put_ok \in BOOLEAN :
                LET manifest_key_ == export_manifest_key(backup_date)
                IN  IF put_ok
                    THEN /\ rt_bucket' = rt_bucket \cup {manifest_key_}
                         /\ rt_content' =
                                With(rt_content, manifest_key_, rt_run + 1)
                         /\ rt_written' = rt_written \cup {manifest_key_}
                    ELSE UNCHANGED <<rt_bucket, rt_content, rt_written>>
    /\ UNCHANGED <<rt_pc, rt_request, rt_result, notRoundTripVars>>

\* A restore run for 'latest' or for one of the dates exported so far
RtRestoreRun ==
    /\ rt_pc = "export"
    /\ rt_today > 0
    /\ \E request \in Requests(1..rt_today) :
          /\ rt_request' = request
          /\ rt_result' = manifest_lookup(rt_bucket, request)
    /\ rt_pc' = "done"
    /\ UNCHANGED <<rt_today, rt_run, rt_bucket, rt_content, rt_written,
                   notRoundTripVars>>

NextRoundTrip ==
    \/ RtExportRun
    \/ RtRestoreRun

SpecRoundTrip == InitRoundTrip /\ [][NextRoundTrip]_vars

\* the dates the export runs stored a manifest for
WrittenDates == {k.date : k \in rt_written}

\* C19: the manifest an export run stored for date D is what a restore run
\* for D reads, and what a restore run for 'latest' reads when D is the
\* newest date an export run stored a manifest for.
C19_RestoreFindsExportedManifest ==
    (rt_pc = "done" /\ WrittenDates # {}) =>
        LET D == IF rt_request.latest THEN Newest(WrittenDates)
                 ELSE rt_request.date
        IN  D \in WrittenDates =>
               /\ rt_result.status = "found"
               /\ rt_result.key \in rt_written
               /\ rt_result.key.date = D

----------------------------------------------------------------------------
\* Properties of write_batch's retry loop

\* the time slept before the n-th retry, summed over the first n retries
TotalBackoff(n) == SumSeq([a \in 1..n |-> Min(2 ^ (a - 1), 10)])

\* C20: a batch gets at most MaxRetries calls.  While it is retried the
\* requests resubmitted are exactly those not yet counted successful, and
\* the worker has slept min(2^attempt, 10) before each retry.  A batch that
\* fails any item does so on its last attempt only, its unprocessed items
\* counted failed and the rest written; a batch that ends on an earlier
\* attempt, all its unprocessed items accepted on a retry, is fully written.
C20_RetryUnprocessed ==
    rpc = "write" =>
        \A c \in 1..Len(chunks) :
            LET ch == chunks[c]
            IN  /\ ch.calls <= MaxRetries
                /\ ch.state \in {"queued", "running"} =>
                      /\ ch.attempt = ch.calls
                      /\ ch.attempt <= MaxRetries - 1
                      /\ ch.put_requests + ch.batch_successful = ch.size
                      /\ ch.put_requests > 0
                      /\ ch.slept = TotalBackoff(ch.attempt)
                /\ ch.state = "done" =>
                      /\ ch.calls >= 1
                      /\ ch.slept = TotalBackoff(ch.calls - 1)
                      /\ ch.batch_successful + ch.batch_failed = ch.size
                      /\ ch.batch_failed > 0 => ch.calls = MaxRetries
                      /\ ch.calls < MaxRetries => ch.batch_successful = ch.size

\* C20 witness: 60 items in 3 batches with 5 workers; the 2nd batch left 4
\* items unprocessed once, waited 1 unit and had them accepted on the retry;
\* with the other two batches collected the totals come to 60 written.
C20_Witness ==
    /\ rpc = "write"
    /\ max_workers = 5
    /\ total_items = 60
    /\ Len(chunks) = 3
    /\ chunks[1].state = "collected"
    /\ chunks[3].state = "collected"
    /\ chunks[2].state = "done"
    /\ chunks[2].calls = 2
    /\ chunks[2].slept = 1
    /\ chunks[2].batch_successful = BatchLimit
    /\ chunks[2].batch_failed = 0
    /\ items_written + chunks[2].batch_successful = 60
    /\ failed_items = 0

\* the 2nd batch of that run between its two calls: 4 requests to resubmit
C20_Retrying ==
    /\ rpc = "write"
    /\ total_items = 60
    /\ chunks[2].state = "running"
    /\ chunks[2].attempt = 1
    /\ chunks[2].put_requests = 4
    /\ chunks[2].batch_successful = 21

----------------------------------------------------------------------------
\* disaster_recovery: write_batch on its own.  An item list is cut into its
\* batches and the workers of the pool run write_batch side by side, each for
\* its own batch; every answer a call gets is logged with the number of
\* requests the call carried.

\* len(items)
ItemCounts == {1, 10, BatchLimit, BatchLimit + 1, 2 * BatchLimit,
               2 * BatchLimit + 1}

\* write_batch has built put_requests and enters its retry loop
StartedChunks(n) ==
    [c \in 1..ChunkCount(n) |-> [MakeChunks(n)[c] EXCEPT !.state = "running"]]

WriteBatchStart ==
    /\ wb_total_items \in ItemCounts
    /\ wb_chunks = StartedChunks(wb_total_items)
    /\ wb_log = [c \in 1..Len(wb_chunks) |-> <<>>]

InitWriteBatch ==
    /\ WriteBatchStart /\ ClearIdle /\ OffsiteCopyIdle
    /\ LocateIdle /\ TwiceIdle /\ ConfigIdle /\ RoundTripIdle
    /\ ExportIdle /\ TableRestoreIdle /\ HandlerIdle

notWriteBatchVars ==
    <<exportVars, restoreVars, locateVars, twiceVars, configVars,
      roundTripVars, clearVars, offsiteCopyVars>>

\* One worker makes one batch_write_item call and takes its answer.
WbCall ==
    /\ \E c \in 1..Len(wb_chunks) :
          /\ wb_chunks[c].state = "running"
          /\ \E resp \in WriteResponses(wb_chunks[c].put_requests) :
                /\ wb_chunks' =
                       [wb_chunks EXCEPT ![c] = write_attempt(@, resp)]
                /\ wb_log' =
                       [wb_log EXCEPT ![c] =
                           Append(@, [error |-> resp.error,
                                      unprocessed |-> resp.unprocessed,
                                      put_requests |->
                                          wb_chunks[c].put_requests])]
    /\ UNCHANGED <<wb_total_items, notWriteBatchVars>>

NextWriteBatch == WbCall

SpecWriteBatch == InitWriteBatch /\ [][NextWriteBatch]_vars

\* what a finished batch reports, going by the answer of its last call only
ReportOf(size, last) ==
    IF last.error THEN <<0, size>>
    ELSE <<size - last.unprocessed, last.unprocessed>>

\* C21: a call that raises is followed, while attempts are left, by a retry
\* of the same requests after the same backoff as for unprocessed items, and
\* no batch gets more than MaxRetries calls; when the last permitted call
\* raises the whole batch is failed (failed = its size, written = 0).  What a
\* batch reports follows from its own calls' answers, whatever the calls of
\* the other batch met.
C21_TransportErrorRetried ==
    \A c \in 1..Len(wb_chunks) :
        LET ch == wb_chunks[c]
            log == wb_log[c]
            n == Len(log)
        IN  /\ n <= MaxRetries
            /\ ch.calls = n
            /\ (n >= 1 /\ n < MaxRetries /\ log[n].error) =>
                  /\ ch.state = "running"
                  /\ ch.attempt = n
                  /\ ch.put_requests = log[n].put_requests
                  /\ ch.slept = TotalBackoff(n)
            /\ (n = MaxRetries /\ log[n].error) =>
                  /\ ch.state = "done"
                  /\ ch.batch_failed = ch.size
                  /\ ch.batch_successful = 0
            /\ ch.state = "done" =>
                  <<ch.batch_successful, ch.batch_failed>>
                      = ReportOf(ch.size, log[n])

\* C21 witness: the first batch's three calls all raised and its 25 items
\* are failed; the second batch, retried once for 4 unprocessed items in the
\* meantime, is fully written.
C21_Witness ==
    /\ Len(wb_chunks) = 2
    /\ Len(wb_log[1]) = MaxRetries
    /\ \A k \in 1..MaxRetries : wb_log[1][k].error
    /\ wb_chunks[1].state = "done"
    /\ wb_chunks[1].size = BatchLimit
    /\ wb_chunks[1].batch_failed = BatchLimit
    /\ wb_chunks[1].batch_successful = 0
    /\ wb_chunks[1].slept = TotalBackoff(MaxRetries - 1)
    /\ Len(wb_log[2]) = 2
    /\ wb_log[2][1].unprocessed = 4
    /\ wb_chunks[2].state = "done"
    /\ wb_chunks[2].batch_successful = wb_chunks[2].size

----------------------------------------------------------------------------
\* Properties of the export monitor

\* C22: the timeout flag goes only onto jobs that are not terminal: no job
\* returned by wait_for_exports_completion carries both the timeout flag and
\* the status COMPLETED or FAILED.
C22_TimeoutFlagOnlyOnNonTerminal ==
    pc = "return" =>
        \A i \in 1..Len(completed_exports) :
            ~(TimedOut(completed_exports[i])
              /\ completed_exports[i].status \in Terminal)


\* the handles in a list of status dicts whose status is COMPLETED or FAILED
TerminalArns(infos) ==
    {infos[i].export_arn :
        i \in {j \in 1..Len(infos) : infos[j].status \in Terminal}}

\* the jobs a poll has observed COMPLETED or FAILED so far
ObservedTerminal ==
    TerminalArns(completed_exports) \cup TerminalArns(timed_out_exports)

\* the jobs the monitor is still going to poll
ToBePolled ==
    IF pc = "while" THEN Range(export_arns)
    ELSE IF pc = "poll"
    THEN {export_arns[k] : k \in idx..Len(export_arns)}
             \cup Range(remaining_exports)
    ELSE IF pc = "timeout"
    THEN {export_arns[k] : k \in idx..Len(export_arns)}
    ELSE {}

\* a job observed terminal is not among those to be polled
NeverPolledAgain == ToBePolled \cap ObservedTerminal = {}

\* the status dict of a job observed terminal stays as it is while the
\* monitor runs, is what _update_export_results_with_completion puts into the
\* job's result, and that result does not change afterwards
RecordKept ==
    /\ \A i \in 1..Len(completed_exports) :
          (completed_exports[i].status \in Terminal /\ pc # "return") =>
             /\ i <= Len(completed_exports')
             /\ completed_exports'[i] = completed_exports[i]
    /\ \A i \in 1..Len(completed_exports) :
          (completed_exports[i].status \in Terminal /\ pc = "return") =>
             \E r \in 1..Len(export_results) :
                /\ Get(export_results[r], "export_arn", 0)
                       = completed_exports[i].export_arn
                /\ export_results'[r] =
                       Update(export_results[r], completed_exports[i])
    /\ \A r \in 1..Len(export_results) :
          export_results[r].status \in Terminal =>
             /\ r <= Len(export_results')
             /\ export_results'[r] = export_results[r]

\* C23: once a poll has observed a job COMPLETED or FAILED the job is not
\* polled again, and what was recorded for it (status, counts) does not
\* change for the rest of the run.
C23_TerminalJobImmutable == []NeverPolledAgain /\ [][RecordKept]_vars

\* C23 witness: two jobs; the first was observed COMPLETED in an earlier
\* round and the monitor, three rounds later, is polling the second one only.
C23_Witness ==
    /\ pc = "poll"
    /\ elapsed = 3 * PollInterval
    /\ Len(completed_exports) = 1
    /\ completed_exports[1].export_arn = 1
    /\ completed_exports[1].status = "COMPLETED"
    /\ export_arns = <<2>>
    /\ idx = 1

----------------------------------------------------------------------------
\* disaster_recovery: clear_existing_table_data on its own.  The table is the
\* set of its item keys; a scan returns at most MaxPage items in key order,
\* with a LastEvaluatedKey when more follow.  Each delete batch is one
\* batch_write_item call submitted to the pool; the calls run beside the
\* control task, which collects their results after the page's last submit.

\* What the table holds when the clear starts
ClearTables == {{}, 1..3, 1..MaxPage, 1..(2 * MaxPage)}

\* the keys of a set at positions lo .. hi - 1 in key order (items[lo:hi])
KeySlice(keys, lo, hi) ==
    {k \in keys : LET rank == Cardinality({q \in keys : q < k})
                  IN  lo <= rank /\ rank < hi}

MaxKey(keys) == CHOOSE k \in keys : \A q \in keys : q <= k

\* How the store treats a delete batch: accept_at is the submission at which
\* it takes all of the batch's requests (MaxRetries + 1: not within
\* MaxRetries submissions); before that a submission raises or comes back
\* with unprocessed requests.
DeleteAnswers ==
    {[accept_at |-> 1, fault |-> "all_written"]}
        \cup {[accept_at |-> a, fault |-> f] :
                 a \in 2..(MaxRetries + 1),
                 f \in ResponseKinds \ {"all_written"}}

\* delete_futures.append(executor.submit(dynamodb.batch_write_item, ...))
NewDelete(keys) ==
    [keys |-> keys, state |-> "submitted", raised |-> FALSE,
     unprocessed |-> {}]

ClearStart ==
    /\ cl_pc = "describe"
    /\ cl_table \in ClearTables
    /\ cl_table0 = cl_table
    /\ cl_items = {}
    /\ cl_last_key = 0
    /\ cl_futures = <<>>
    /\ cl_items_deleted = 0
    /\ cl_batch_count = 0
    /\ cl_accept_at = {}
    /\ cl_result = NoClearResult

InitClear ==
    /\ ClearStart /\ WriteBatchIdle /\ OffsiteCopyIdle
    /\ LocateIdle /\ TwiceIdle /\ ConfigIdle /\ RoundTripIdle
    /\ ExportIdle /\ TableRestoreIdle /\ HandlerIdle

notClearVars ==
    <<exportVars, restoreVars, locateVars, twiceVars, configVars,
      roundTripVars, writeBatchVars, offsiteCopyVars>>

\* describe_table and the key schema; a failure is caught by the function's
\* except, which returns (False, 0).
ClDescribe ==
    /\ cl_pc = "describe"
    /\ \E ok \in BOOLEAN :
          IF ok
          THEN cl_pc' = "scan" /\ UNCHANGED cl_result
          ELSE /\ cl_pc' = "done"
               /\ cl_result' = [success |-> FALSE, items_deleted |-> 0]
    /\ UNCHANGED <<cl_table, cl_table0, cl_items, cl_last_key, cl_futures,
                   cl_items_deleted, cl_batch_count, cl_accept_at,
                   notClearVars>>

\* response = dynamodb.scan(**scan_kwargs); an empty page ends the loop
ClScan ==
    /\ cl_pc = "scan"
    /\ \E ok \in BOOLEAN :
          LET rest == {k \in cl_table : k > cl_last_key}
              items == KeySlice(rest, 0, MaxPage)
          IN  IF ~ok
              THEN /\ cl_pc' = "done"
                   /\ cl_result' = [success |-> FALSE, items_deleted |-> 0]
                   /\ UNCHANGED <<cl_items, cl_last_key, cl_futures>>
              ELSE IF items = {}
              THEN /\ cl_pc' = "done"
                   /\ cl_result' = [success |-> TRUE,
                                    items_deleted |-> cl_items_deleted]
                   /\ UNCHANGED <<cl_items, cl_last_key, cl_futures>>
              ELSE /\ cl_pc' = "submit"
                   /\ cl_items' = items
                   /\ cl_last_key' = IF rest # items THEN MaxKey(items) ELSE 0
                   /\ cl_futures' = <<>>
                   /\ UNCHANGED cl_result
    /\ UNCHANGED <<cl_table, cl_table0, cl_items_deleted, cl_batch_count,
                   cl_accept_at, notClearVars>>

\* for i in range(0, len(items), 25): one delete batch is built and submitted
ClSubmit ==
    /\ cl_pc = "submit"
    /\ LET i == BatchLimit * Len(cl_futures)
           batch == KeySlice(cl_items, i, i + BatchLimit)
       IN  /\ cl_futures' = Append(cl_futures, NewDelete(batch))
           /\ cl_pc' = IF i + BatchLimit < Cardinality(cl_items)
                       THEN "submit" ELSE "collect"
    /\ cl_batch_count' = cl_batch_count + 1
    /\ UNCHANGED <<cl_table, cl_table0, cl_items, cl_last_key,
                   cl_items_deleted, cl_accept_at, cl_result, notClearVars>>

\* A worker of the pool makes the batch's one batch_write_item call: the
\* store deletes the keys it takes; the rest come back unprocessed, or the
\* call raises.
ClDelete ==
    /\ cl_pc \in {"submit", "collect"}
    /\ \E c \in 1..Len(cl_futures) :
          /\ cl_futures[c].state = "submitted"
          /\ \E answer \in DeleteAnswers :
                LET keys == cl_futures[c].keys
                    resp == ResponseOf(answer.fault, Cardinality(keys))
                    unprocessed == KeySlice(keys, 0, resp.unprocessed)
                    taken == IF resp.error THEN {} ELSE keys \ unprocessed
                IN  /\ cl_table' = cl_table \ taken
                    /\ cl_futures' =
                           [cl_futures EXCEPT ![c].state = "done",
                                              ![c].raised = resp.error,
                                              ![c].unprocessed = unprocessed]
                    /\ cl_accept_at' = cl_accept_at \cup {answer.accept_at}
    /\ UNCHANGED <<cl_pc, cl_table0, cl_items, cl_last_key, cl_items_deleted,
                   cl_batch_count, cl_result, notClearVars>>

\* for future in as_completed(delete_futures): a result adds 25 to
\* items_deleted, its unprocessed requests are logged; an exception is logged.
ClCollect ==
    /\ cl_pc = "collect"
    /\ \E c \in 1..Len(cl_futures) :
          /\ cl_futures[c].state = "done"
          /\ cl_futures' = [cl_futures EXCEPT ![c].state = "collected"]
          /\ cl_items_deleted' = IF cl_futures[c].raised
                                 THEN cl_items_deleted
                                 ELSE cl_items_deleted + BatchLimit
    /\ UNCHANGED <<cl_pc, cl_table, cl_table0, cl_items, cl_last_key,
                   cl_batch_count, cl_accept_at, cl_result, notClearVars>>

\* The page is done: with a LastEvaluatedKey the next page is scanned from
\* it, else the function returns (True, items_deleted).
ClEndPage ==
    /\ cl_pc = "collect"
    /\ \A c \in 1..Len(cl_futures) : cl_futures[c].state = "collected"
    /\ IF cl_last_key # 0
       THEN cl_pc' = "scan" /\ UNCHANGED cl_result
       ELSE /\ cl_pc' = "done"
            /\ cl_result' = [success |-> TRUE,
                             items_deleted |-> cl_items_deleted]
    /\ UNCHANGED <<cl_table, cl_table0, cl_items, cl_last_key, cl_futures,
                   cl_items_deleted, cl_batch_count, cl_accept_at,
                   notClearVars>>

NextClear ==
    \/ ClDescribe
    \/ ClScan
    \/ ClSubmit
    \/ ClDelete
    \/ ClCollect
    \/ ClEndPage

SpecClear == InitClear /\ [][NextClear]_vars

\* C24: the clear retries its delete batches like write_batch retries its
\* writes, so whenever the store accepts every delete request within
\* MaxRetries submissions, a clear that reports success has left none of the
\* table's previous items.
C24_ClearRetriesDeletes ==
    (/\ cl_pc = "done"
     /\ cl_result.success
     /\ \A a \in cl_accept_at : a <= MaxRetries)
    => cl_table \cap cl_table0 = {}

----------------------------------------------------------------------------
\* Properties of the order of files and tables in a restore

\* the batches a worker may still make a call for
InFlight == {c \in 1..Len(chunks) : chunks[c].state \in {"queued", "running"}}

\* Batches exist only inside batch_write_items_to_table, and they are the
\* batches of the file being processed.
OnlyCurrentFileInFlight ==
    /\ rpc # "write" => chunks = <<>>
    /\ rpc = "write" =>
          /\ file_i \in 1..Len(data_files)
          /\ total_items = data_files[file_i]
          /\ SumSeq([c \in 1..Len(chunks) |-> chunks[c].size])
                 = data_files[file_i]

\* Files are taken one after another, and the next one only when no batch
\* of the current one is left; a step of the handler's loop works on the
\* table at table_i only and leaves with that table's result.
OneAfterAnother ==
    /\ file_i' # file_i =>
          /\ file_i' = file_i + 1
          /\ InFlight = {}
          /\ chunks' = <<>>
    /\ (dpc = "restore" /\ table_i' # table_i) =>
          /\ table_i' = table_i + 1
          /\ Len(restore_results') = table_i
    /\ \A t \in DOMAIN table_items :
          table_items'[t] # table_items[t] =>
             /\ t = tables_to_restore[table_i]
             /\ table_i' = table_i + 1
             /\ restore_results'[table_i].table_name = t

\* C25: within a table's restore the data files are processed one after
\* another in the order found - no batch of the next file is written before
\* every batch of the current one has finished, so only batches of one file
\* are in flight together - and the handler restores one table at a time,
\* starting on the next only when the previous restore has returned.
C25_FilesAndTablesSequential ==
    []OnlyCurrentFileInFlight /\ [][OneAfterAnother]_vars

\* C25 witness: the first file's 60 items are processed and counted; of the
\* second file's three batches two are being written at the same time.
C25_Witness ==
    /\ rpc = "write"
    /\ file_i = 2
    /\ total_items_processed = 60
    /\ total_items = 60
    /\ Cardinality(Running) = 2
    /\ Queued # {}

----------------------------------------------------------------------------
\* The two worker pools: the batch writes of a table's restore, or the
\* delete batches of a clear.
InitWorkers == InitRestoreTable \/ InitClear

NextWorkers == NextRestoreTable \/ NextClear

SpecWorkers == InitWorkers /\ [][NextWorkers]_vars

\* A step inside batch_write_items_to_table that changes a counter is the
\* coordinator collecting one finished batch, whose counts it adds; a step
\* in which a worker takes a batch or makes a call leaves the counters.
WriteCountersSingleWriter ==
    (rpc = "write" /\ rpc' = "write") =>
        /\ <<items_written, failed_items, batch_count>>'
               # <<items_written, failed_items, batch_count>> =>
              \E c \in 1..Len(chunks) :
                 /\ chunks[c].state = "done"
                 /\ chunks'[c].state = "collected"
                 /\ \A d \in 1..Len(chunks) : d # c => chunks'[d] = chunks[d]
                 /\ items_written' = items_written + chunks[c].batch_successful
                 /\ failed_items' = failed_items + chunks[c].batch_failed
                 /\ batch_count' = batch_count + 1
        /\ (\E c \in InFlight : chunks'[c] # chunks[c]) =>
              UNCHANGED <<items_written, failed_items, batch_count>>
        /\ \A c \in 1..Len(chunks) :
              chunks[c].state = "collected" => chunks'[c] = chunks[c]

\* The same for items_deleted and the delete batches of a page.
DeleteCounterSingleWriter ==
    /\ cl_items_deleted' # cl_items_deleted =>
          /\ cl_pc = "collect"
          /\ \E c \in 1..Len(cl_futures) :
                /\ cl_futures[c].state = "done"
                /\ ~cl_futures[c].raised
                /\ cl_futures' = [cl_futures EXCEPT ![c].state = "collected"]
                /\ cl_items_deleted' = cl_items_deleted + BatchLimit
    /\ (\E c \in 1..Len(cl_futures) :
           /\ cl_futures[c].state = "submitted"
           /\ c <= Len(cl_futures')
           /\ cl_futures'[c] # cl_futures[c]) =>
          UNCHANGED cl_items_deleted
    /\ (cl_pc = "collect" /\ cl_pc' = "collect") =>
          \A c \in 1..Len(cl_futures) :
             cl_futures[c].state = "collected" =>
                cl_futures'[c] = cl_futures[c]

\* each batch's counts are in the totals once it is collected, and once only
EveryResultCountedOnce ==
    rpc = "write" =>
        items_written + failed_items
            = SumSeq([c \in 1..Len(chunks) |->
                         IF chunks[c].state = "collected"
                         THEN chunks[c].size ELSE 0])

\* C26: the written and failed counters of a batch write, and the deleted
\* counter of a clear, are changed by the coordinating task only, when it
\* collects a worker's result; no step of a worker changes them, and under
\* every interleaving each collected result is in the counters exactly once.
C26_CountersSingleWriter ==
    /\ []EveryResultCountedOnce
    /\ [][WriteCountersSingleWriter /\ DeleteCounterSingleWriter]_vars

\* C26 witness: of three batches one is collected and in the counters, while
\* two workers are in the middle of their retries for the other two.
C26_Witness ==
    /\ rpc = "write"
    /\ Len(chunks) = 3
    /\ chunks[2].state = "collected"
    /\ items_written = 21
    /\ failed_items = 4
    /\ batch_count = 1
    /\ chunks[1].state = "running" /\ chunks[1].attempt = 2
    /\ chunks[3].state = "running" /\ chunks[3].attempt = 1


----------------------------------------------------------------------------
\* Properties of the batches of batch_write_items_to_table

\* range(0, total_items, 25)
batch_starts(n) == {i \in 0..(n - 1) : i % BatchLimit = 0}

\* items[i:i + 25], as the positions of the items in the list
batch_slice(i, n) == {k \in 0..(n - 1) : i <= k /\ k < i + BatchLimit}

\* C27: the batches are consecutive slices of at most 25 items, pairwise
\* disjoint and together covering the list, so every item is in exactly one
\* batch; and every call of a batch, the retries included, carries at most 25
\* requests, all of them requests of that batch: the first call carries the
\* batch, a retry carries what the call before it carried or left
\* unprocessed.
C27_ChunksPartitionItems ==
    LET n == wb_total_items
        starts == batch_starts(n)
    IN  /\ Len(wb_chunks) = Cardinality(starts)
        /\ \A c \in 1..Len(wb_chunks) :
              /\ wb_chunks[c].size
                     = Cardinality(batch_slice(BatchLimit * (c - 1), n))
              /\ wb_chunks[c].size \in 1..BatchLimit
        /\ \A i, j \in starts :
              i # j => batch_slice(i, n) \cap batch_slice(j, n) = {}
        /\ UNION {batch_slice(i, n) : i \in starts} = 0..(n - 1)
        /\ \A c \in 1..Len(wb_chunks) :
              \A k \in 1..Len(wb_log[c]) :
                 /\ wb_log[c][k].put_requests \in 1..wb_chunks[c].size
                 /\ wb_log[c][k].unprocessed <= wb_log[c][k].put_requests
                 /\ k = 1 => wb_log[c][k].put_requests = wb_chunks[c].size
                 /\ k > 1 =>
                       wb_log[c][k].put_requests =
                          IF wb_log[c][k - 1].error
                          THEN wb_log[c][k - 1].put_requests
                          ELSE wb_log[c][k - 1].unprocessed

\* C27 witness: 51 items in batches of 25, 25 and 1; the second batch was
\* submitted whole, then with its 4 unprocessed requests, twice.
C27_Witness ==
    /\ wb_total_items = 2 * BatchLimit + 1
    /\ Len(wb_chunks) = 3
    /\ wb_chunks[3].size = 1
    /\ Len(wb_log[2]) = MaxRetries
    /\ wb_log[2][1].put_requests = BatchLimit
    /\ wb_log[2][2].put_requests = 4
    /\ wb_log[2][2].error
    /\ wb_log[2][3].put_requests = 4
    /\ Len(wb_log[1]) = 1

----------------------------------------------------------------------------
\* Properties of the export run's phases

\* the phase a position of the control task belongs to
PhaseOf(p) ==
    IF p = "config" THEN 0
    ELSE IF p = "start" THEN 1
    ELSE IF p \in {"while", "poll", "timeout", "return"} THEN 2
    ELSE IF p \in {"manifest", "summary"} THEN 3
    ELSE IF p \in {"copy", "copy_file"} THEN 4
    ELSE 5

CompletedExports == CountStatus(export_results, {"COMPLETED"})

\* what has and has not happened at each position
PhasesInOrder ==
    /\ pc \in {"config", "start"} =>
          /\ completed_exports = <<>>
          /\ final_poll_log = <<>>
          /\ elapsed = 0
    /\ (PhaseOf(pc) = 2 \/ (PhaseOf(pc) >= 3 /\ ManifestBuilt)) =>
          Len(start_outcome) = Len(tables_to_backup)
    /\ PhaseOf(pc) <= 2 => ~ManifestBuilt
    /\ (PhaseOf(pc) = 4 \/ copy_results # NoCopy) =>
          /\ ManifestBuilt
          /\ export_arns = <<>>
    /\ pc \notin {"copy_file", "status", "done"} =>
          /\ copy_results = NoCopy
          /\ offsite_puts = 0
    /\ offsite_puts > 0 =>
          /\ CompletedExports >= 1
          /\ ManifestBuilt
          /\ copy_results.status \notin {"NONE", "SKIPPED"}
    /\ (copy_results # NoCopy /\ CompletedExports = 0) =>
          /\ copy_results.status = "SKIPPED"
          /\ s3_objects = 0
          /\ offsite_puts = 0
    /\ (copy_results # NoCopy /\ CompletedExports >= 1) =>
          copy_results.status # "SKIPPED"

\* C28: the run goes through its phases in order - start all exports,
\* monitor, manifest, offsite copy - and copies offsite only when an export
\* ended COMPLETED: with none the copy outcome is SKIPPED and nothing is
\* stored offsite, and nothing is stored offsite before the monitor has
\* returned and the manifest's write has been attempted.
C28_PhasesOrdered ==
    []PhasesInOrder /\ [][PhaseOf(pc') >= PhaseOf(pc)]_vars

\* C28 witness: of two exports one was seen FAILED and the other was still
\* in progress at the deadline; the manifest is built, the copy was skipped
\* and the run has returned.
C28_Witness ==
    /\ pc = "done"
    /\ Len(export_results) = 2
    /\ export_results[1].status = "FAILED"
    /\ "export_arn" \in DOMAIN export_results[1]
    /\ export_results[2].status = "IN_PROGRESS"
    /\ TimedOut(export_results[2])
    /\ ManifestBuilt
    /\ copy_results.status = "SKIPPED"
    /\ offsite_puts = 0

----------------------------------------------------------------------------
\* Properties of the manifests in the backup bucket

\* every manifest of the bucket is still there after the step, as it was
ManifestsKept ==
    \A k \in rt_bucket :
        /\ k \in rt_bucket'
        /\ rt_content'[k] = rt_content[k]

\* C29: a manifest is written once and only read afterwards: no export run
\* replaces or alters a manifest already stored for its backup date, and no
\* restore run writes, replaces or deletes a manifest.
C29_ManifestWriteOnce == [][ManifestsKept]_vars

----------------------------------------------------------------------------
\* Termination of the export monitor

\* C30: wait_for_exports_completion always returns: whatever describe_export
\* answers - never a terminal status, always an error, or any mix - a run
\* that has entered the monitor gets to the manifest phase, and a run that
\* has got there completes.
C30_MonitorTerminates ==
    /\ (pc = "while") ~> (pc = "manifest")
    /\ (pc = "manifest") ~> (pc = "done" /\ ManifestBuilt)

\* C30 witness: the run is over; one job's polls all raised and the other's
\* all said IN_PROGRESS, the final ones after the deadline included.
C30_Witness ==
    /\ pc = "done"
    /\ ManifestBuilt
    /\ Len(export_results) = 2
    /\ export_results[1].status = "UNKNOWN"
    /\ TimedOut(export_results[1])
    /\ export_results[2].status = "IN_PROGRESS"
    /\ export_results[2].item_count = 0
    /\ TimedOut(export_results[2])

----------------------------------------------------------------------------
\* disaster_recovery: batch_write_items_to_table on its own, from its entry
\* with a non-empty item list to its return, the pool's workers and the
\* coordinator all scheduled fairly.

\* len(items)
BatchWriteItemCounts == {10, BatchLimit + 1, 2 * BatchLimit + 10}

BatchWriteStart ==
    /\ rpc = "write"
    /\ clear_existing = FALSE
    /\ max_workers \in WorkerCounts
    /\ \E n \in BatchWriteItemCounts :
          /\ data_files = <<n>>
          /\ total_items = n
          /\ chunks = MakeChunks(n)
    /\ file_i = 1
    /\ written_failed = <<0, 0>>
    /\ total_items_processed = 0
    /\ total_items_written = 0
    /\ total_items_failed = 0
    /\ restore_result = NoResult
    /\ items_written = 0
    /\ failed_items = 0
    /\ batch_count = 0

InitBatchWrite ==
    BatchWriteStart /\ ExportIdle /\ HandlerIdle /\ AuxIdle

NextBatchWrite ==
    \/ WorkerTake
    \/ WriteAttempt
    \/ CollectResult
    \/ ReturnBatchWrite

\* The executor's threads and the coordinating thread all keep running.
SpecBatchWriteFair ==
    InitBatchWrite /\ [][NextBatchWrite]_vars /\ WF_vars(NextBatchWrite)

\* the batches of the call
ChunkIds == 1..ChunkCount(2 * BatchLimit + 10)

\* the batches whose future has been collected
Collected == {c \in 1..Len(chunks) : chunks[c].state = "collected"}

\* Every batch has had at most MaxRetries calls, holds a result once it is
\* done, and the coordinator has counted exactly the collected ones.
ChunksConcluding ==
    rpc = "write" =>
        /\ batch_count = Cardinality(Collected)
        /\ \A c \in 1..Len(chunks) :
              /\ chunks[c].calls <= MaxRetries
              /\ chunks[c].attempt <= MaxRetries - 1
              /\ chunks[c].state \in {"queued", "running", "done", "collected"}
              /\ chunks[c].state \in {"done", "collected"} =>
                    chunks[c].batch_successful + chunks[c].batch_failed
                        = chunks[c].size

\* A batch's outcome, once there, stays as it is until the call returns, and
\* the call returns only with every batch collected.
OutcomeKeptUntilReturn ==
    rpc = "write" =>
        /\ \A c \in 1..Len(chunks) :
              chunks[c].state \in {"done", "collected"} =>
                  \/ /\ rpc' = "write"
                     /\ chunks'[c].state \in {"done", "collected"}
                     /\ chunks[c].state = "collected" =>
                            chunks'[c].state = "collected"
                     /\ chunks'[c].batch_successful = chunks[c].batch_successful
                     /\ chunks'[c].batch_failed = chunks[c].batch_failed
                  \/ rpc' # "write"
        /\ rpc' # "write" =>
              /\ Collected = 1..Len(chunks)
              /\ batch_count = Len(chunks)
              /\ written_failed'[1] + written_failed'[2] = total_items

\* C31: batch_write_items_to_table runs every batch to a conclusion.  Under
\* fair scheduling and whatever the remote answers, every batch comes to hold
\* one (successful, failed) outcome after at most MaxRetries calls, the
\* outcome stays, the coordinator collects it once, and the call returns,
\* which it does only when every batch has been collected.
C31_EveryChunkConcludes ==
    /\ []ChunksConcluding
    /\ [][OutcomeKeptUntilReturn]_vars
    /\ \A c \in ChunkIds :
          (rpc = "write" /\ c <= Len(chunks))
              ~> (rpc = "write" /\ c <= Len(chunks)
                     /\ chunks[c].state = "collected")
    /\ (rpc = "write") ~> (rpc = "add_processed")

\* C31 witness: 60 items in 3 batches with one worker; every batch has been
\* collected, the 2nd after 3 calls that all ended in an error, and the call
\* is about to return 35 written and 25 failed.
C31_Witness ==
    /\ rpc = "write"
    /\ max_workers = 1
    /\ total_items = 2 * BatchLimit + 10
    /\ Collected = 1..3
    /\ batch_count = 3
    /\ chunks[2].batch_failed = BatchLimit
    /\ items_written = BatchLimit + 10
    /\ failed_items = BatchLimit

----------------------------------------------------------------------------
\* Properties of a restore that finds no data files

\* the results of the tables whose restore ended at get_export_data_files
NoDataFilesResults ==
    {i \in 1..Len(restore_results) :
        /\ restore_results[i].status = "FAILED"
        /\ Get(restore_results[i], "error", "") = "No data files found"}

\* C32: a table whose restore failed because no data file of its export could
\* be located holds every item it held before the run, whether or not
\* clear_existing_data is set.
C32_NoDataFilesNothingDeleted ==
    \A i \in NoDataFilesResults :
        table_items0[restore_results[i].table_name]
            \subseteq table_items[restore_results[i].table_name]

----------------------------------------------------------------------------
\* Properties of a restore whose data file cannot be read

\* C33: a table's restore reports COMPLETED only if every data file found for
\* its export was read and every record of it written: the result counts the
\* records of all its files as processed and as written, and the table holds
\* them.
C33_CompletedMeansAllFilesRead ==
    \A i \in 1..Len(restore_results) :
        restore_results[i].status = "COMPLETED" =>
            /\ restore_results[i].items_processed
                   = restore_results[i].total_files_processed * Len(FileKeys)
            /\ restore_results[i].items_written
                   = restore_results[i].items_processed
            /\ Range(FileKeys)
                   \subseteq table_items[restore_results[i].table_name]

----------------------------------------------------------------------------
\* daily_backup: copy_to_backblaze on its own.  An object of the primary
\* storage is its key (a number); the objects under the backup date's prefix
\* are listed page by page, MaxKeys keys to a page, and copied one by one.

\* how many objects the exports of the day left under the prefix
StoredCounts == 0..(MaxObjects + 2)

OffsiteCopyStart ==
    /\ oc_pc = "client"
    /\ oc_stored \in {1..n : n \in StoredCounts}
    /\ oc_objects = <<>>
    /\ oc_i = 0
    /\ oc_results = NoCopy
    /\ oc_offsite = {}

InitOffsiteCopy ==
    /\ OffsiteCopyStart /\ WriteBatchIdle /\ ClearIdle
    /\ LocateIdle /\ TwiceIdle /\ ConfigIdle /\ RoundTripIdle
    /\ ExportIdle /\ TableRestoreIdle /\ HandlerIdle

notOffsiteCopyVars ==
    <<exportVars, restoreVars, locateVars, twiceVars, configVars,
      roundTripVars, writeBatchVars, clearVars>>

\* boto3.client(...) for the offsite store; if it raises, the function's
\* except returns a FAILED outcome.
OcClient ==
    /\ oc_pc = "client"
    /\ \E ok \in BOOLEAN :
          IF ok
          THEN oc_pc' = "list" /\ UNCHANGED oc_results
          ELSE /\ oc_pc' = "done"
               /\ oc_results' = CopyOutcome("FAILED", 0, <<"client_error">>)
    /\ UNCHANGED <<oc_stored, oc_objects, oc_i, oc_offsite,
                   notOffsiteCopyVars>>

\* the keys of the next page of the listing, in key order
NextPage ==
    {k \in oc_stored :
        Len(oc_objects) < k /\ k <= Len(oc_objects) + MaxKeys}

\* s3_objects is there: with no object the function returns SUCCESS with
\* nothing copied, else copy_results starts as SUCCESS and the loop begins.
Listed(objects) ==
    /\ oc_objects' = objects
    /\ oc_results' = CopyOutcome("SUCCESS", 0, <<>>)
    /\ oc_pc' = IF objects = <<>> THEN "done" ELSE "copy_file"
    /\ oc_i' = 1

\* list_s3_objects: one page of the paginator is added to objects; an error
\* of the listing is caught and the function returns [], whatever the pages
\* before it held.
OcListPage ==
    /\ oc_pc = "list"
    /\ \E ok \in BOOLEAN :
          IF ok
          THEN LET objects ==
                       oc_objects \o [j \in 1..Cardinality(NextPage) |->
                                         Len(oc_objects) + j]
               IN  IF Len(objects) = Cardinality(oc_stored)
                   THEN Listed(objects)
                   ELSE /\ oc_objects' = objects
                        /\ UNCHANGED <<oc_pc, oc_i, oc_results>>
          ELSE Listed(<<>>)
    /\ UNCHANGED <<oc_stored, oc_offsite, notOffsiteCopyVars>>

\* One iteration of the per-object loop: get_object from the primary storage
\* and put_object to the offsite store; an error of either is recorded and
\* the loop goes on.
OcCopyFile ==
    /\ oc_pc = "copy_file"
    /\ oc_i <= Len(oc_objects)
    /\ \E copied \in BOOLEAN :
          IF copied
          THEN /\ oc_results' = [oc_results EXCEPT !.files_copied = @ + 1]
               /\ oc_offsite' = oc_offsite \cup {oc_objects[oc_i]}
          ELSE /\ oc_results' =
                      [oc_results EXCEPT
                          !.errors = Append(@, "copy_failed"),
                          !.status = IF oc_results.files_copied > 0
                                     THEN "PARTIAL_SUCCESS" ELSE "FAILED"]
               /\ UNCHANGED oc_offsite
    /\ oc_i' = oc_i + 1
    /\ UNCHANGED <<oc_pc, oc_stored, oc_objects, notOffsiteCopyVars>>

\* After the loop: the copy manifest is put to the offsite store; if that
\* raises, the function's except returns a FAILED outcome.
OcPutManifest ==
    /\ oc_pc = "copy_file"
    /\ oc_i > Len(oc_objects)
    /\ \E put_ok \in BOOLEAN :
          IF put_ok
          THEN UNCHANGED oc_results
          ELSE oc_results' = CopyOutcome("FAILED", 0, <<"manifest_put">>)
    /\ oc_pc' = "done"
    /\ UNCHANGED <<oc_stored, oc_objects, oc_i, oc_offsite,
                   notOffsiteCopyVars>>

NextOffsiteCopy ==
    \/ OcClient
    \/ OcListPage
    \/ OcCopyFile
    \/ OcPutManifest

SpecOffsiteCopy == InitOffsiteCopy /\ [][NextOffsiteCopy]_vars

\* C34: the offsite copy's outcome is SUCCESS only if every object stored
\* under the backup date's prefix has been uploaded to the offsite store.
C34_SuccessMeansAllUploaded ==
    (oc_pc = "done" /\ oc_results.status = "SUCCESS") =>
        oc_stored \subseteq oc_offsite

----------------------------------------------------------------------------
\* Properties of what write_batch reports against what the store took

\* the put requests of a batch the store accepted, over the calls logged: a
\* call that raised accepted none, another all but its unprocessed ones
AcceptedBy(log) ==
    SumSeq([a \in 1..Len(log) |->
               IF log[a].error THEN 0
               ELSE log[a].put_requests - log[a].unprocessed])

\* C35: the written count a finished batch reports is the number of its
\* items the store accepted over all its calls, also when items were accepted
\* on an earlier call and a later call for the rest raised.
C35_WrittenIsAccepted ==
    \A c \in 1..Len(wb_chunks) :
        wb_chunks[c].state = "done" =>
            wb_chunks[c].batch_successful = AcceptedBy(wb_log[c])

----------------------------------------------------------------------------
\* Properties of the outcome of the per-file copy loop

\* C36: while the copy loop runs and when it has ended, copy_results has
\* status FAILED only with no file copied, and status PARTIAL_SUCCESS exactly
\* when at least one file was copied and at least one failed, in whatever
\* order the files succeeded and failed.
C36_CopyStatusMatchesCounts ==
    oc_pc = "copy_file" =>
        /\ oc_results.status = "FAILED" => oc_results.files_copied = 0
        /\ oc_results.status = "PARTIAL_SUCCESS" <=>
               (oc_results.files_copied > 0 /\ Len(oc_results.errors) > 0)

----------------------------------------------------------------------------
\* Properties of the count the clear reports

\* C37: the items_deleted a clear returns is never more than the number of
\* items the table held when the clear started, also when the last delete
\* batch holds fewer than BatchLimit items.
C37_ClearedAtMostHeld ==
    cl_pc = "done" =>
        cl_result.items_deleted <= Cardinality(cl_table0)

----------------------------------------------------------------------------
\* Properties of the records the export monitor returns

\* the handles wait_for_exports_completion was called with: those of the
\* jobs _start_table_exports started
StartedArns ==
    {export_results[r].export_arn :
        r \in {q \in 1..Len(export_results) :
                  "export_arn" \in DOMAIN export_results[q]}}

\* the records of a list of status dicts that carry handle h
RecordsOf(h, infos) == {i \in 1..Len(infos) : infos[i].export_arn = h}

\* C38: wait_for_exports_completion returns exactly one status record per
\* job handle it was called with: while it runs, a handle is either still to
\* be polled or has exactly one record, never both; when it returns, every
\* handle has exactly one record and there is no other record.
C38_OneRecordPerHandle ==
    /\ pc \in {"while", "poll", "timeout"} =>
          \A h \in StartedArns :
              Cardinality(RecordsOf(h, completed_exports))
                  + Cardinality(RecordsOf(h, timed_out_exports))
                  + (IF h \in ToBePolled THEN 1 ELSE 0) = 1
    /\ pc = "return" =>
          /\ Len(completed_exports) = Cardinality(StartedArns)
          /\ \A h \in StartedArns :
                Cardinality(RecordsOf(h, completed_exports)) = 1

\* C38 witness: two jobs were monitored; the monitor returns two records,
\* one of a job seen COMPLETED while polling, one of a job still IN_PROGRESS
\* at the deadline and flagged timed out.
C38_Witness ==
    /\ pc = "return"
    /\ StartedArns = {1, 2}
    /\ Len(completed_exports) = 2
    /\ \E i, j \in 1..2 :
          /\ completed_exports[i].status = "COMPLETED"
          /\ ~TimedOut(completed_exports[i])
          /\ completed_exports[j].status = "IN_PROGRESS"
          /\ TimedOut(completed_exports[j])

----------------------------------------------------------------------------
\* Properties of the tables a restore run touches

\* the tables restore_table_from_s3_export has been called for
AttemptedTables ==
    {restore_results[i].table_name :
        i \in {j \in 1..Len(restore_results) :
                  restore_results[j].status # "SKIPPED"}}

\* the tables that do not hold what they held when the run started
ModifiedTables ==
    {t \in DOMAIN table_items : table_items[t] # table_items0[t]}

\* t is one of the three fixed tables, passes the request's tables filter,
\* and the export lookup holds the manifest's COMPLETED entry for it
MayBeRestored(t) ==
    /\ t \in Range(all_available_tables)
    /\ event.tables = <<>> \/ t \in Range(event.tables)
    /\ t \in DOMAIN available_exports
    /\ available_exports[t].table_name = t
    /\ available_exports[t].status = "COMPLETED"

\* C39: a restore run that is not a dry run deletes from or writes to a
\* table, or calls the table restore for it, only if the table is one of the
\* three fixed tables, passes the request's filter and has a COMPLETED entry
\* in the manifest; a table outside the fixed list is never modified, and a
\* table whose entry is FAILED, UNKNOWN or IN_PROGRESS is not in the lookup.
C39_OnlyValidatedTablesTouched ==
    ~event.dry_run =>
        /\ \A t \in ModifiedTables \cup AttemptedTables : MayBeRestored(t)
        /\ table_items["bogus"] = table_items0["bogus"]
        /\ \A t \in DOMAIN available_exports :
              available_exports[t].status = "COMPLETED"

\* C39 witness: the request names totp and u2f; totp has no COMPLETED entry
\* and is skipped, holding what it held; u2f is restored and now holds the
\* items of its export.
C39_Witness ==
    /\ dpc = "done"
    /\ ~event.dry_run
    /\ event.tables = <<"totp", "u2f">>
    /\ DOMAIN available_exports = {"u2f"}
    /\ restore_results[1].status = "SKIPPED"
    /\ restore_results[2].status = "COMPLETED"
    /\ ModifiedTables = {"u2f"}
    /\ Range(FileKeys) \subseteq table_items["u2f"]

----------------------------------------------------------------------------
\* Properties of the result list the manifest is written from

\* one entry per configured table, in the configured order
OneEntryPerTable(results) ==
    /\ Len(results) = Len(tables_to_backup)
    /\ \A i \in 1..Len(results) : results[i].table_name = tables_to_backup[i]

\* entry is result updated with a record of the monitor that carries the
\* result's own handle: every field of the record, the rest as it was
CarriesOwnRecord(result, entry) ==
    \E j \in RecordsOf(result.export_arn, completed_exports) :
        /\ DOMAIN entry = DOMAIN result \cup DOMAIN completed_exports[j]
        /\ \A k \in DOMAIN completed_exports[j] :
              entry[k] = completed_exports[j][k]
        /\ \A k \in DOMAIN result \ DOMAIN completed_exports[j] :
              entry[k] = result[k]

\* the step from the monitor's return to the manifest phase
ResultsUpdatedByHandle ==
    (pc = "return" /\ pc' = "manifest") =>
        /\ Len(export_results') = Len(export_results)
        /\ \A i \in 1..Len(export_results) :
              IF "export_arn" \in DOMAIN export_results[i]
              THEN /\ CarriesOwnRecord(export_results[i], export_results'[i])
                   /\ export_results'[i].table_name
                          = export_results[i].table_name
                   /\ export_results'[i].export_arn
                          = export_results[i].export_arn
              ELSE export_results'[i] = export_results[i]

\* a job that has a record is not polled again, so its record is that of its
\* last poll; and the manifest's list is the result list, which is complete
\* from the end of the start phase on
ManifestListsResults ==
    /\ \A h \in StartedArns :
          (RecordsOf(h, completed_exports) # {}
               \/ RecordsOf(h, timed_out_exports) # {}) =>
              h \notin ToBePolled
    /\ (pc \notin {"config", "start", "idle", "done"} \/ ManifestBuilt) =>
          OneEntryPerTable(export_results)
    /\ ManifestBuilt =>
          /\ manifest.exports = export_results
          /\ OneEntryPerTable(manifest.exports)

\* C40: the result list written to the manifest has exactly one entry per
\* configured table, in the configured order, and the entry of every started
\* job carries the status record of that job's last poll, matched by the
\* job's handle.
C40_ManifestEntriesMatchJobs ==
    []ManifestListsResults /\ [][ResultsUpdatedByHandle]_vars

\* C40 witness: two tables, both jobs started; the 2nd job was seen COMPLETED
\* while polling and the 1st was still IN_PROGRESS at the deadline, so the
\* monitor returned the 2nd job's record first; the manifest lists the 1st
\* table timed out and the 2nd COMPLETED with its 1200 items.
C40_Witness ==
    /\ ManifestBuilt
    /\ Len(tables_to_backup) = 2
    /\ Get(manifest.exports[1], "export_arn", 0) = 1
    /\ manifest.exports[1].status = "IN_PROGRESS"
    /\ TimedOut(manifest.exports[1])
    /\ Get(manifest.exports[2], "export_arn", 0) = 2
    /\ manifest.exports[2].status = "COMPLETED"
    /\ manifest.exports[2].item_count = 1200
    /\ ~TimedOut(manifest.exports[2])
====
